---- MODULE Spec2Model ----
(***************************************************************************)
(* VoiceShop: the in-memory shopping list (data/store.js), the product     *)
(* catalog search (data/catalog.js), the deterministic price extractor     *)
(* (services/searchService.js), the translation gateway                    *)
(* (services/translationService.js), the LLM intent extractor              *)
(* (services/hfClient.js, services/intentParser.js) and the                *)
(* POST /api/process pipeline (routes/nlpRoutes.js).                        *)
(*                                                                         *)
(* Strings are TLA+ strings handled character by character (Len, SubSeq,   *)
(* \o), so toLowerCase, trim and includes are computed, not assumed.       *)
(* Prices are integers in cents (3.99 is 399).                             *)
(***************************************************************************)
EXTENDS Integers, Sequences, FiniteSets, TLC

VARIABLES
    shoppingList,     \* store.js: let shoppingList = []
    nextId,           \* store.js: let nextId = 1
    purchaseHistory,  \* store.js: const purchaseHistory = {} (name -> count, 0 = no key)
    lastCall,         \* the last store call made directly: its arguments and result
    sQuery,           \* catalog search under test: the query argument
    sFilters,         \* catalog search under test: the filters argument
    sResults,         \* catalog search under test: what searchCatalog returned
    sCalls,           \* catalog search under test: calls made so far (0, 1 or 2)
    sFirst,           \* catalog search under test: filters and results of the first call
    hfApiKey,         \* process.env.HF_API_KEY is set
    req,              \* POST /api/process: the state of each request
    pCall,            \* extractPriceConstraint called directly: text and result
    aCall,            \* handleAdviceQuestion called directly: text, month and result
    snapshot,         \* an array getList() returned to a caller that kept it
    appState,         \* frontend/script.js: const appState
    addEvents         \* history variable: addItem calls made so far, per normalized name

storeVars == <<shoppingList, nextId, purchaseHistory>>
searchVars == <<sQuery, sFilters, sResults, sCalls, sFirst>>
processVars == <<hfApiKey, req>>
unitVars == <<pCall, aCall, snapshot, appState>>

\* ------------------------------------------------------------------ bounds

\* Largest quantity an entry of the list may reach in the model.
MaxQuantity == 5
\* Largest add-event count kept per name in the model.
MaxCount == 2
\* Largest id handed out before clearList must reset the counter.
MaxId == 2

\* ------------------------------------------------------------ JS strings

\* String.prototype.charAt (1-based here).
CharAt(s, i) == SubSeq(s, i, i)

\* One character of String.prototype.toLowerCase.
LowerChar(c) ==
    CASE c = "A" -> "a" [] c = "B" -> "b" [] c = "C" -> "c" [] c = "D" -> "d"
      [] c = "E" -> "e" [] c = "F" -> "f" [] c = "G" -> "g" [] c = "H" -> "h"
      [] c = "I" -> "i" [] c = "J" -> "j" [] c = "K" -> "k" [] c = "L" -> "l"
      [] c = "M" -> "m" [] c = "N" -> "n" [] c = "O" -> "o" [] c = "P" -> "p"
      [] c = "Q" -> "q" [] c = "R" -> "r" [] c = "S" -> "s" [] c = "T" -> "t"
      [] c = "U" -> "u" [] c = "V" -> "v" [] c = "W" -> "w" [] c = "X" -> "x"
      [] c = "Y" -> "y" [] c = "Z" -> "z" [] OTHER -> c

RECURSIVE ToLowerCase(_)
\* String.prototype.toLowerCase.
ToLowerCase(s) ==
    IF Len(s) = 0 THEN ""
    ELSE LowerChar(CharAt(s, 1)) \o ToLowerCase(SubSeq(s, 2, Len(s)))

RECURSIVE TrimStart(_)
TrimStart(s) ==
    IF Len(s) > 0 /\ CharAt(s, 1) = " " THEN TrimStart(SubSeq(s, 2, Len(s))) ELSE s

RECURSIVE TrimEnd(_)
TrimEnd(s) ==
    IF Len(s) > 0 /\ CharAt(s, Len(s)) = " " THEN TrimEnd(SubSeq(s, 1, Len(s) - 1)) ELSE s

\* String.prototype.trim (the only white space of the model's texts is " ").
Trim(s) == TrimEnd(TrimStart(s))

\* String.prototype.includes: t occurs in s.
Includes(s, t) ==
    \E i \in 0..(Len(s) - Len(t)) : SubSeq(s, i + 1, i + Len(t)) = t

\* s starts with t at position i (1-based).
StartsAt(s, i, t) == i + Len(t) - 1 <= Len(s) /\ SubSeq(s, i, i + Len(t) - 1) = t

\* ------------------------------------------------------------- store.js

\* JS null for a string-valued slot.
NoCategory == ""

\* CATEGORY_MAP in declaration order (Object.entries order).
CATEGORY_MAP == <<
    <<"apple", "Fruits">>, <<"banana", "Fruits">>, <<"mango", "Fruits">>,
    <<"orange", "Fruits">>, <<"grape", "Fruits">>, <<"strawberry", "Fruits">>,
    <<"watermelon", "Fruits">>, <<"pineapple", "Fruits">>, <<"lemon", "Fruits">>,
    <<"kiwi", "Fruits">>,
    <<"onion", "Vegetables">>, <<"tomato", "Vegetables">>, <<"potato", "Vegetables">>,
    <<"carrot", "Vegetables">>, <<"spinach", "Vegetables">>, <<"broccoli", "Vegetables">>,
    <<"cucumber", "Vegetables">>, <<"garlic", "Vegetables">>, <<"ginger", "Vegetables">>,
    <<"pepper", "Vegetables">>,
    <<"milk", "Dairy">>, <<"butter", "Dairy">>, <<"cheese", "Dairy">>,
    <<"yogurt", "Dairy">>, <<"cream", "Dairy">>, <<"paneer", "Dairy">>,
    <<"curd", "Dairy">>,
    <<"bread", "Bakery">>, <<"bun", "Bakery">>, <<"cake", "Bakery">>,
    <<"biscuit", "Bakery">>, <<"cookie", "Bakery">>,
    <<"juice", "Beverages">>, <<"water", "Beverages">>, <<"soda", "Beverages">>,
    <<"coffee", "Beverages">>, <<"tea", "Beverages">>, <<"cola", "Beverages">>,
    <<"rice", "Grains & Staples">>, <<"wheat", "Grains & Staples">>,
    <<"flour", "Grains & Staples">>, <<"oats", "Grains & Staples">>,
    <<"pasta", "Grains & Staples">>, <<"noodles", "Grains & Staples">>,
    <<"dal", "Grains & Staples">>, <<"lentil", "Grains & Staples">>,
    <<"toothpaste", "Personal Care">>, <<"shampoo", "Personal Care">>,
    <<"soap", "Personal Care">>, <<"lotion", "Personal Care">>,
    <<"deodorant", "Personal Care">>, <<"razor", "Personal Care">>,
    <<"detergent", "Cleaning">>, <<"bleach", "Cleaning">>, <<"mop", "Cleaning">>,
    <<"sponge", "Cleaning">>, <<"dishwash", "Cleaning">> >>

RECURSIVE CategorizeLastMatch(_, _)
\* A bug categorize could have: a later keyword of the table overrides an
\* earlier one.
CategorizeLastMatch(name, i) ==
    IF i > Len(CATEGORY_MAP) THEN "General"
    ELSE LET rest == CategorizeLastMatch(name, i + 1)
         IN IF rest # "General" THEN rest
            ELSE IF Includes(name, CATEGORY_MAP[i][1]) THEN CATEGORY_MAP[i][2]
            ELSE "General"

RECURSIVE CategorizeFrom(_, _)
CategorizeFrom(name, i) ==
    IF i > Len(CATEGORY_MAP) THEN "General"
    ELSE IF Includes(name, CATEGORY_MAP[i][1]) THEN CATEGORY_MAP[i][2]
    ELSE CategorizeFrom(name, i + 1)

\* categorize(name): the category of the first keyword the name contains.
categorize(name) == CategorizeFrom(name, 1)

\* name.toLowerCase().trim()
NormalizeName(name) == Trim(ToLowerCase(name))

\* shoppingList.findIndex(item => item.name === n): 0 when there is none (JS -1).
FindIndex(list, n) ==
    IF \E i \in 1..Len(list) : list[i].name = n
    THEN CHOOSE i \in 1..Len(list) :
            /\ list[i].name = n
            /\ \A j \in 1..(i - 1) : list[j].name # n
    ELSE 0

\* The lowercase names purchaseHistory, a plain object ({}), inherits from
\* Object.prototype: purchaseHistory[name] is truthy for them without an own
\* key, so addItem creates no entry, and count += 1 lands on the inherited
\* object.
PrototypeKeys == {"constructor", "__proto__"}

\* The history tracking of addItem (count 0 = no own key).
TrackHistory(hist, n) ==
    IF n \in PrototypeKeys THEN hist ELSE [hist EXCEPT ![n] = @ + 1]

\* No item (JS null) where an item record is expected.
NoItem == [id |-> 0, name |-> "", quantity |-> 0, category |-> "", addedAt |-> 0]

RECURSIVE SumCounts(_, _)
SumCounts(hist, names) ==
    IF names = {} THEN 0
    ELSE LET n == CHOOSE x \in names : TRUE
         IN hist[n] + SumCounts(hist, names \ {n})

\* new Date().toISOString() at an addItem call, as a logical time that never
\* goes back: the number of addItem calls the history has counted.
Now(hist) == SumCounts(hist, DOMAIN hist)

\* A bug addItem could have: it pushes a new entry without looking for an
\* existing one.
AddItemAlwaysPush(list, id, hist, name, quantity, category) ==
    LET n == NormalizeName(name)
        newItem == [id |-> id, name |-> n, quantity |-> quantity,
                    category |-> IF category # NoCategory THEN category ELSE categorize(n),
                    addedAt |-> Now(TrackHistory(hist, n))]
    IN [list |-> Append(list, newItem), nextId |-> id + 1,
        hist |-> TrackHistory(hist, n), item |-> newItem]

\* A bug addItem could have: a new entry takes nextId as its id and the
\* counter is not advanced, so that the next new entry takes the same id.
AddItemReusesId(list, id, hist, name, quantity, category) ==
    LET n == NormalizeName(name)
        idx == FindIndex(list, n)
    IN IF idx # 0
       THEN LET upd == [list[idx] EXCEPT !.quantity = @ + quantity]
            IN [list |-> [list EXCEPT ![idx] = upd], nextId |-> id,
                hist |-> TrackHistory(hist, n), item |-> upd]
       ELSE LET newItem == [id |-> id, name |-> n, quantity |-> quantity,
                            category |-> IF category # NoCategory THEN category
                                         ELSE categorize(n),
                            addedAt |-> Now(TrackHistory(hist, n))]
            IN [list |-> Append(list, newItem), nextId |-> id,
                hist |-> TrackHistory(hist, n), item |-> newItem]

\* A bug addItem could have: the quantity of an existing entry is replaced by
\* the quantity of the call, so the earlier additions are lost.
AddItemOverwrite(list, id, hist, name, quantity, category) ==
    LET n == NormalizeName(name)
        idx == FindIndex(list, n)
    IN IF idx # 0
       THEN LET upd == [list[idx] EXCEPT !.quantity = quantity]
            IN [list |-> [list EXCEPT ![idx] = upd], nextId |-> id,
                hist |-> TrackHistory(hist, n), item |-> upd]
       ELSE AddItemAlwaysPush(list, id, hist, name, quantity, category)

\* addItem(name, quantity, category): the store after the call and the item
\* it returns.
AddItem(list, id, hist, name, quantity, category) ==
    LET n == NormalizeName(name)
        hist2 == TrackHistory(hist, n)
        idx == FindIndex(list, n)
    IN IF idx # 0
       THEN LET upd == [list[idx] EXCEPT !.quantity = @ + quantity]
            IN [list |-> [list EXCEPT ![idx] = upd], nextId |-> id,
                hist |-> hist2, item |-> upd]
       ELSE LET newItem == [id |-> id, name |-> n, quantity |-> quantity,
                            category |-> IF category # NoCategory THEN category
                                         ELSE categorize(n),
                            addedAt |-> Now(hist2)]
            IN [list |-> Append(list, newItem), nextId |-> id + 1,
                hist |-> hist2, item |-> newItem]

\* list.splice(idx, 1)
Splice(list, idx) == SubSeq(list, 1, idx - 1) \o SubSeq(list, idx + 1, Len(list))

\* A bug removeItem could have: splice is called with findIndex's -1, which
\* takes the last entry off the list.
RemoveItemSpliceAlways(list, name) ==
    LET n == NormalizeName(name)
        idx == FindIndex(list, n)
    IN IF idx = 0
       THEN IF list = <<>> THEN [list |-> list, item |-> NoItem]
            ELSE [list |-> SubSeq(list, 1, Len(list) - 1), item |-> list[Len(list)]]
       ELSE [list |-> Splice(list, idx), item |-> list[idx]]

\* removeItem(name): the list after the call and the removed item (NoItem for null).
RemoveItem(list, name) ==
    LET n == NormalizeName(name)
        idx == FindIndex(list, n)
    IN IF idx = 0 THEN [list |-> list, item |-> NoItem]
       ELSE [list |-> Splice(list, idx), item |-> list[idx]]

\* getList(): a copy of the array.
GetList(list) == list

\* [...shoppingList] copies the array and not the item objects: each element
\* of the copy is the object the list holds. An element of a kept copy is
\* shared while that object is still in the list; item is what reading the
\* element gives.
NoSnapshot == [taken |-> FALSE, elements |-> <<>>, atCall |-> <<>>]

TakeSnapshot(list) ==
    [taken |-> TRUE,
     elements |-> [i \in 1..Len(list) |-> [item |-> GetList(list)[i], shared |-> TRUE]],
     atCall |-> GetList(list)]

\* addItem returned item: when it is the object of a shared element (same
\* name; names are unique in the list), existing.quantity += quantity is
\* seen through the element.
SnapshotAfterAdd(snap, item) ==
    [snap EXCEPT !.elements =
        [i \in 1..Len(snap.elements) |->
            IF snap.elements[i].shared /\ snap.elements[i].item.name = item.name
            THEN [snap.elements[i] EXCEPT !.item = item]
            ELSE snap.elements[i]]]

\* removeItem spliced item out of the list (NoItem: nothing removed): the
\* object stays in the copy and is no longer in the list.
SnapshotAfterRemove(snap, item) ==
    [snap EXCEPT !.elements =
        [i \in 1..Len(snap.elements) |->
            IF snap.elements[i].shared /\ snap.elements[i].item.name = item.name
            THEN [snap.elements[i] EXCEPT !.shared = FALSE]
            ELSE snap.elements[i]]]

\* clearList assigns a new array: no object of the copy is in the list.
SnapshotAfterClear(snap) ==
    [snap EXCEPT !.elements =
        [i \in 1..Len(snap.elements) |-> [snap.elements[i] EXCEPT !.shared = FALSE]]]

\* ----------------------------------------------------------- catalog.js

\* CATALOG in declaration order; price in cents.
CATALOG == <<
    [id |-> 1, name |-> "apples", brand |-> "FreshFarm", size |-> "1 kg", price |-> 399,
     category |-> "Fruits", tags |-> <<"fresh", "organic">>],
    [id |-> 2, name |-> "apples", brand |-> "OrganicVale", size |-> "1 kg", price |-> 549,
     category |-> "Fruits", tags |-> <<"organic", "premium">>],
    [id |-> 3, name |-> "bananas", brand |-> "TropicBest", size |-> "6 pack", price |-> 199,
     category |-> "Fruits", tags |-> <<"fresh">>],
    [id |-> 4, name |-> "oranges", brand |-> "SunGrove", size |-> "1 kg", price |-> 299,
     category |-> "Fruits", tags |-> <<"fresh", "vitamin c">>],
    [id |-> 5, name |-> "mango", brand |-> "TropicBest", size |-> "500 g", price |-> 349,
     category |-> "Fruits", tags |-> <<"tropical", "fresh">>],
    [id |-> 6, name |-> "strawberries", brand |-> "BerryFresh", size |-> "250 g", price |-> 429,
     category |-> "Fruits", tags |-> <<"fresh", "organic">>],
    [id |-> 7, name |-> "tomatoes", brand |-> "GardenPick", size |-> "500 g", price |-> 149,
     category |-> "Vegetables", tags |-> <<"fresh">>],
    [id |-> 8, name |-> "spinach", brand |-> "GreenLeaf", size |-> "200 g", price |-> 219,
     category |-> "Vegetables", tags |-> <<"organic", "fresh">>],
    [id |-> 9, name |-> "broccoli", brand |-> "FreshFields", size |-> "400 g", price |-> 249,
     category |-> "Vegetables", tags |-> <<"fresh", "organic">>],
    [id |-> 10, name |-> "onions", brand |-> "FarmSelect", size |-> "1 kg", price |-> 99,
     category |-> "Vegetables", tags |-> <<"fresh">>],
    [id |-> 11, name |-> "carrots", brand |-> "GreenLeaf", size |-> "500 g", price |-> 129,
     category |-> "Vegetables", tags |-> <<"organic", "fresh">>],
    [id |-> 12, name |-> "milk", brand |-> "DairyBest", size |-> "1 L", price |-> 129,
     category |-> "Dairy", tags |-> <<"whole milk">>],
    [id |-> 13, name |-> "milk", brand |-> "DairyBest", size |-> "2 L", price |-> 209,
     category |-> "Dairy", tags |-> <<"whole milk", "family">>],
    [id |-> 14, name |-> "almond milk", brand |-> "NutriBlend", size |-> "1 L", price |-> 349,
     category |-> "Dairy", tags |-> <<"vegan", "lactose free", "plant based">>],
    [id |-> 15, name |-> "oat milk", brand |-> "OatWave", size |-> "1 L", price |-> 379,
     category |-> "Dairy", tags |-> <<"vegan", "plant based">>],
    [id |-> 16, name |-> "butter", brand |-> "CreamyFarm", size |-> "250 g", price |-> 279,
     category |-> "Dairy", tags |-> <<"unsalted">>],
    [id |-> 17, name |-> "butter", brand |-> "LuxeCream", size |-> "500 g", price |-> 499,
     category |-> "Dairy", tags |-> <<"premium", "salted">>],
    [id |-> 18, name |-> "cheddar cheese", brand |-> "CheeseHouse", size |-> "200 g", price |-> 399,
     category |-> "Dairy", tags |-> <<"sharp", "aged">>],
    [id |-> 19, name |-> "greek yogurt", brand |-> "CreamyFarm", size |-> "500 g", price |-> 299,
     category |-> "Dairy", tags |-> <<"probiotic", "low fat">>],
    [id |-> 20, name |-> "toothpaste", brand |-> "BrightSmile", size |-> "100 ml", price |-> 249,
     category |-> "Personal Care", tags |-> <<"whitening", "mint">>],
    [id |-> 21, name |-> "toothpaste", brand |-> "DentaFresh", size |-> "150 ml", price |-> 399,
     category |-> "Personal Care", tags |-> <<"sensitive", "fluoride">>],
    [id |-> 22, name |-> "toothpaste", brand |-> "AquaClean", size |-> "200 ml", price |-> 499,
     category |-> "Personal Care", tags |-> <<"herbal", "natural">>],
    [id |-> 23, name |-> "shampoo", brand |-> "HairLux", size |-> "400 ml", price |-> 599,
     category |-> "Personal Care", tags |-> <<"moisturizing", "all hair types">>],
    [id |-> 24, name |-> "shampoo", brand |-> "NatureCare", size |-> "300 ml", price |-> 449,
     category |-> "Personal Care", tags |-> <<"organic", "sulfate free">>],
    [id |-> 25, name |-> "body wash", brand |-> "SkinSoft", size |-> "500 ml", price |-> 399,
     category |-> "Personal Care", tags |-> <<"moisturizing", "gentle">>],
    [id |-> 26, name |-> "deodorant", brand |-> "FreshGuard", size |-> "150 ml", price |-> 349,
     category |-> "Personal Care", tags |-> <<"antiperspirant", "24hr">>],
    [id |-> 27, name |-> "basmati rice", brand |-> "GrainMaster", size |-> "1 kg", price |-> 299,
     category |-> "Grains & Staples", tags |-> <<"long grain", "aromatic">>],
    [id |-> 28, name |-> "basmati rice", brand |-> "RoyalGrain", size |-> "5 kg", price |-> 1299,
     category |-> "Grains & Staples", tags |-> <<"premium", "long grain">>],
    [id |-> 29, name |-> "whole wheat bread", brand |-> "BakeWell", size |-> "400 g", price |-> 199,
     category |-> "Bakery", tags |-> <<"fiber rich", "healthy">>],
    [id |-> 30, name |-> "whole wheat bread", brand |-> "NatureBake", size |-> "600 g", price |-> 349,
     category |-> "Bakery", tags |-> <<"multigrain", "organic">>],
    [id |-> 31, name |-> "pasta", brand |-> "ItalianChoice", size |-> "500 g", price |-> 149,
     category |-> "Grains & Staples", tags |-> <<"whole wheat">>],
    [id |-> 32, name |-> "oats", brand |-> "MorningBest", size |-> "500 g", price |-> 229,
     category |-> "Grains & Staples", tags |-> <<"rolled oats", "fiber">>],
    [id |-> 33, name |-> "orange juice", brand |-> "SunPress", size |-> "1 L", price |-> 299,
     category |-> "Beverages", tags |-> <<"no sugar", "100% juice">>],
    [id |-> 34, name |-> "green tea", brand |-> "LeafZen", size |-> "25 bags", price |-> 349,
     category |-> "Beverages", tags |-> <<"antioxidant", "organic">>],
    [id |-> 35, name |-> "coffee", brand |-> "BrewCraft", size |-> "250 g", price |-> 699,
     category |-> "Beverages", tags |-> <<"arabica", "medium roast">>],
    [id |-> 36, name |-> "sparkling water", brand |-> "AquaFizz", size |-> "1 L", price |-> 129,
     category |-> "Beverages", tags |-> <<"zero calories", "sugar free">>],
    [id |-> 37, name |-> "dish soap", brand |-> "SparkleClean", size |-> "500 ml", price |-> 199,
     category |-> "Cleaning", tags |-> <<"grease cutting", "lemon">>],
    [id |-> 38, name |-> "laundry detergent", brand |-> "WashPro", size |-> "1 kg", price |-> 599,
     category |-> "Cleaning", tags |-> <<"concentrated", "fresh scent">>],
    [id |-> 39, name |-> "laundry detergent", brand |-> "EcoWash", size |-> "1.5 kg", price |-> 849,
     category |-> "Cleaning", tags |-> <<"eco friendly", "plant based">>] >>

\* An optional number (JS null, or a number of cents).
NoNumber == [set |-> FALSE, v |-> 0]
Num(v) == [set |-> TRUE, v |-> v]

\* The filters object; "" stands for a null or empty (falsy) string.
NoFilters == [brand |-> "", maxPrice |-> NoNumber, minPrice |-> NoNumber,
              size |-> "", qualifier |-> ""]

\* product.tags.some(t => t.includes(qualQ))
TagMatch(product, qualQ) ==
    \E k \in 1..Len(product.tags) : Includes(product.tags[k], qualQ)

\* A bug the filter could have: the price bounds are compared the wrong way round.
MatchesSwappedBounds(product, q, filters) ==
    /\ Includes(product.name, q) \/ Includes(q, product.name)
    /\ filters.brand # "" => Includes(ToLowerCase(product.brand), ToLowerCase(filters.brand))
    /\ filters.maxPrice.set => ~(product.price < filters.maxPrice.v)
    /\ filters.minPrice.set => ~(product.price > filters.minPrice.v)
    /\ filters.size # "" => Includes(ToLowerCase(product.size), ToLowerCase(filters.size))
    /\ filters.qualifier # "" =>
          \A qualQ \in {ToLowerCase(filters.qualifier)} :
              TagMatch(product, qualQ) \/ Includes(product.name, qualQ)

\* A bug the filter could have: a size filter is taken as an alternative to
\* the brand filter instead of a further condition.
MatchesSizeOrBrand(product, q, filters) ==
    /\ Includes(product.name, q) \/ Includes(q, product.name)
    /\ \/ filters.brand = ""
       \/ Includes(ToLowerCase(product.brand), ToLowerCase(filters.brand))
       \/ /\ filters.size # ""
          /\ Includes(ToLowerCase(product.size), ToLowerCase(filters.size))
    /\ filters.maxPrice.set => ~(product.price > filters.maxPrice.v)
    /\ filters.minPrice.set => ~(product.price < filters.minPrice.v)
    /\ filters.qualifier # "" =>
          \A qualQ \in {ToLowerCase(filters.qualifier)} :
              TagMatch(product, qualQ) \/ Includes(product.name, qualQ)

\* The callback of CATALOG.filter: does the product pass for query q (already
\* lowercased and trimmed) and the filters.
Matches(product, q, filters) ==
    /\ Includes(product.name, q) \/ Includes(q, product.name)
    /\ filters.brand # "" => Includes(ToLowerCase(product.brand), ToLowerCase(filters.brand))
    /\ filters.maxPrice.set => ~(product.price > filters.maxPrice.v)
    /\ filters.minPrice.set => ~(product.price < filters.minPrice.v)
    /\ filters.size # "" => Includes(ToLowerCase(product.size), ToLowerCase(filters.size))
    /\ filters.qualifier # "" =>
          \A qualQ \in {ToLowerCase(filters.qualifier)} :
              TagMatch(product, qualQ) \/ Includes(product.name, qualQ)

RECURSIVE FilterCatalog(_, _, _)
\* CATALOG.filter(...) from position i on, in catalog order.
FilterCatalog(i, q, filters) ==
    IF i > Len(CATALOG) THEN <<>>
    ELSE IF Matches(CATALOG[i], q, filters)
         THEN <<CATALOG[i]>> \o FilterCatalog(i + 1, q, filters)
         ELSE FilterCatalog(i + 1, q, filters)

RECURSIVE InsertBeforeTies(_, _)
\* A bug the sort could have: a product is placed before the products of
\* equal price already sorted, as an unstable sort may do.
InsertBeforeTies(sorted, p) ==
    IF sorted = <<>> THEN <<p>>
    ELSE IF Head(sorted).price - p.price >= 0
         THEN <<p>> \o sorted
         ELSE <<Head(sorted)>> \o InsertBeforeTies(Tail(sorted), p)

RECURSIVE InsertByPrice(_, _)
\* Insert p into a price-sorted sequence after every element whose price is not larger.
InsertByPrice(sorted, p) ==
    IF sorted = <<>> THEN <<p>>
    ELSE IF Head(sorted).price - p.price > 0
         THEN <<p>> \o sorted
         ELSE <<Head(sorted)>> \o InsertByPrice(Tail(sorted), p)

RECURSIVE SortByPrice(_)
\* results.sort((a, b) => a.price - b.price): Array.prototype.sort is stable.
SortByPrice(seq) ==
    IF seq = <<>> THEN <<>>
    ELSE InsertByPrice(SortByPrice(SubSeq(seq, 1, Len(seq) - 1)), seq[Len(seq)])

\* searchCatalog(query, filters)
searchCatalog(query, filters) ==
    SortByPrice(FilterCatalog(1, Trim(ToLowerCase(query)), filters))

\* ----------------------------------------------- services/searchService.js

Digits == {"0", "1", "2", "3", "4", "5", "6", "7", "8", "9"}

DigitValue(c) ==
    CASE c = "0" -> 0 [] c = "1" -> 1 [] c = "2" -> 2 [] c = "3" -> 3 [] c = "4" -> 4
      [] c = "5" -> 5 [] c = "6" -> 6 [] c = "7" -> 7 [] c = "8" -> 8 [] c = "9" -> 9

IsDigitAt(s, i) == i >= 1 /\ i <= Len(s) /\ CharAt(s, i) \in Digits

RECURSIVE SkipSpaces(_, _)
\* \s* from position i: the first position that holds no white space.
SkipSpaces(s, i) ==
    IF i <= Len(s) /\ CharAt(s, i) = " " THEN SkipSpaces(s, i + 1) ELSE i

RECURSIVE DigitsEnd(_, _)
\* \d+ from position i: the position after the run of digits.
DigitsEnd(s, i) == IF IsDigitAt(s, i) THEN DigitsEnd(s, i + 1) ELSE i

RECURSIVE DecimalValue(_, _, _)
\* The value of the digits s[i..j-1].
DecimalValue(s, i, j) ==
    IF j <= i THEN 0 ELSE DecimalValue(s, i, j - 1) * 10 + DigitValue(CharAt(s, j - 1))

NoMatch == [ok |-> FALSE, value |-> 0]

\* (\d+(?:\.\d{1,2})?) at position i and parseFloat of it, in cents.
NumberAt(s, i) ==
    IF ~IsDigitAt(s, i) THEN NoMatch
    ELSE LET j == DigitsEnd(s, i)
             whole == DecimalValue(s, i, j) * 100
         IN IF j <= Len(s) /\ CharAt(s, j) = "." /\ IsDigitAt(s, j + 1)
            THEN IF IsDigitAt(s, j + 2)
                 THEN [ok |-> TRUE, value |-> whole + DecimalValue(s, j + 1, j + 3)]
                 ELSE [ok |-> TRUE, value |-> whole + DecimalValue(s, j + 1, j + 2) * 10]
            ELSE [ok |-> TRUE, value |-> whole]

\* [\$\xA3€]: of the three currency signs the model's texts use "$".
CurrencySigns == {"$"}

\* \s*(?:[$..])?\s*(\d+(?:\.\d{1,2})?) from position k, the position after a cue.
AmountAfter(s, k) ==
    LET k1 == SkipSpaces(s, k)
        k2 == IF k1 <= Len(s) /\ CharAt(s, k1) \in CurrencySigns THEN k1 + 1 ELSE k1
    IN NumberAt(s, SkipSpaces(s, k2))

RECURSIVE CueMatchAt(_, _, _, _)
\* The alternatives of a cue group tried in order at position i.
CueMatchAt(s, i, cues, c) ==
    IF c > Len(cues) THEN NoMatch
    ELSE IF StartsAt(s, i, cues[c]) /\ AmountAfter(s, i + Len(cues[c])).ok
         THEN AmountAfter(s, i + Len(cues[c]))
         ELSE CueMatchAt(s, i, cues, c + 1)

RECURSIVE RegexMatchFrom(_, _, _)
\* String.prototype.match without the g flag: the leftmost match.
RegexMatchFrom(s, i, cues) ==
    IF i > Len(s) THEN NoMatch
    ELSE IF CueMatchAt(s, i, cues, 1).ok THEN CueMatchAt(s, i, cues, 1)
    ELSE RegexMatchFrom(s, i + 1, cues)

\* The cue groups of lessThanRegex, greaterThanRegex and equalRegex; an
\* optional tail, max(?:imum)?, is tried with the tail first.
LessThanCues == <<"under", "below", "less than", "maximum", "max">>
GreaterThanCues == <<"above", "over", "more than", "minimum", "min", "greater than">>
EqualCues == <<"exactly", "for">>

NoConstraint == [operator |-> "NONE", value |-> 0]

\* A bug extractPriceConstraint could have: the greater-than regex is
\* tested before the less-than regex.
PriceConstraintGreaterFirst(lowerText) ==
    IF RegexMatchFrom(lowerText, 1, GreaterThanCues).ok
    THEN [operator |-> "GREATER_THAN",
          value |-> RegexMatchFrom(lowerText, 1, GreaterThanCues).value]
    ELSE IF RegexMatchFrom(lowerText, 1, LessThanCues).ok
    THEN [operator |-> "LESS_THAN", value |-> RegexMatchFrom(lowerText, 1, LessThanCues).value]
    ELSE IF RegexMatchFrom(lowerText, 1, EqualCues).ok
    THEN [operator |-> "EQUAL", value |-> RegexMatchFrom(lowerText, 1, EqualCues).value]
    ELSE NoConstraint

\* The three regex tests of extractPriceConstraint on the lowercased text.
PriceConstraintOf(lowerText) ==
    IF RegexMatchFrom(lowerText, 1, LessThanCues).ok
    THEN [operator |-> "LESS_THAN", value |-> RegexMatchFrom(lowerText, 1, LessThanCues).value]
    ELSE IF RegexMatchFrom(lowerText, 1, GreaterThanCues).ok
    THEN [operator |-> "GREATER_THAN",
          value |-> RegexMatchFrom(lowerText, 1, GreaterThanCues).value]
    ELSE IF RegexMatchFrom(lowerText, 1, EqualCues).ok
    THEN [operator |-> "EQUAL", value |-> RegexMatchFrom(lowerText, 1, EqualCues).value]
    ELSE NoConstraint

\* extractPriceConstraint(text); text is a string ("" is falsy and gives null).
extractPriceConstraint(text) ==
    IF text = "" THEN NoConstraint ELSE PriceConstraintOf(ToLowerCase(text))

\* ------------------------------------------ services/translationService.js

\* The keys of TRANSLATION_MODELS.
TRANSLATION_MODELS == {"hi", "es", "fr", "de", "ar"}

RECURSIVE BeforeDash(_, _)
\* langTag.split("-")[0]: the characters before the first "-", from position i.
BeforeDash(s, i) ==
    IF i > Len(s) \/ CharAt(s, i) = "-" THEN ""
    ELSE CharAt(s, i) \o BeforeDash(s, i + 1)

\* getLangPrefix(langTag); "" stands for a null or empty (falsy) tag.
getLangPrefix(langTag) ==
    IF langTag = "" THEN "en" ELSE ToLowerCase(BeforeDash(langTag, 1))

\* translateToEnglish up to its backend call: TRUE when the call is made,
\* FALSE when it returns the text unchanged at once.
TranslationCallsBackend(langTag, apiKey) ==
    /\ ~(getLangPrefix(langTag) = "en" \/ langTag = "")
    /\ getLangPrefix(langTag) \in TRANSLATION_MODELS
    /\ apiKey

\* What the translation backend may answer: no answer in 30 s, a non-2xx
\* status, a 2xx body of another shape, or [{translation_text}].
NoTReply == [kind |-> "none", text |-> ""]

\* The value translateToEnglish resolves to, or the fact that it throws.
Untranslated(text) == [translatedText |-> text, wasTranslated |-> FALSE, threw |-> FALSE]

\* A bug translateToEnglish could have: the backend call is not wrapped in
\* try/catch, so a failed call rejects.
TranslationResultNoCatch(text, tReply) ==
    IF tReply.kind = "ok" /\ tReply.text # ""
    THEN [translatedText |-> Trim(tReply.text), wasTranslated |-> TRUE, threw |-> FALSE]
    ELSE [translatedText |-> "", wasTranslated |-> FALSE, threw |-> TRUE]

\* The result of translateToEnglish(text, langTag) once the backend answered.
TranslationResult(text, tReply) ==
    IF tReply.kind = "ok" /\ tReply.text # ""
    THEN [translatedText |-> Trim(tReply.text), wasTranslated |-> TRUE, threw |-> FALSE]
    ELSE Untranslated(text)

\* --------------------------------- services/hfClient.js, intentParser.js

\* A JSON value of the payload that may be a string, a number or null.
JsNull == [k |-> "null", s |-> "", n |-> 0]
JsStr(s) == [k |-> "str", s |-> s, n |-> 0]
JsNum(n) == [k |-> "num", s |-> "", n |-> n]

\* JS truthiness of such a value.
Truthy(v) == (v.k = "str" /\ v.s # "") \/ (v.k = "num" /\ v.n # 0)

\* The object a reply's JSON text decodes to. A missing key reads as
\* undefined: "" for intent and language, JsNull for the others.
EmptyPayload == [intent |-> "", item |-> JsNull, quantity |-> JsNull,
                 language |-> "", maxPrice |-> JsNull, qualifier |-> JsNull]

\* The tokens of a reply's text: prose, "{", "}", and the text between a
\* pair of braces, which is the members of an object (wf) or not JSON.
Prose == [t |-> "prose", wf |-> FALSE, p |-> EmptyPayload]
Open == [t |-> "{", wf |-> FALSE, p |-> EmptyPayload]
Close == [t |-> "}", wf |-> FALSE, p |-> EmptyPayload]
Members(p) == [t |-> "members", wf |-> TRUE, p |-> p]
Garbage == [t |-> "members", wf |-> FALSE, p |-> EmptyPayload]

\* What the chat-completions backend may answer.
NoEReply == [kind |-> "none", raw |-> <<>>]

\* query(prompt) once the backend answered: the content, or a throw.
QueryResult(eReply) ==
    IF eReply.kind = "content" /\ eReply.raw # <<>>
    THEN [ok |-> TRUE, raw |-> eReply.raw]
    ELSE [ok |-> FALSE, raw |-> <<>>]

\* raw.match(/\{[\s\S]*\}/): from the first "{" to the last "}" after it;
\* <<>> when there is no match.
JsonMatch(raw) ==
    LET opens == {i \in 1..Len(raw) : raw[i].t = "{"}
        first == CHOOSE i \in opens : \A j \in opens : i <= j
        closes == {i \in 1..Len(raw) : raw[i].t = "}" /\ i > first}
        last == CHOOSE i \in closes : \A j \in closes : j <= i
    IN IF opens = {} THEN <<>>
       ELSE IF closes = {} THEN <<>>
       ELSE SubSeq(raw, first, last)

\* JSON.parse of a matched span: the decoded object, or a SyntaxError.
JsonParse(span) ==
    IF Len(span) = 2 THEN [ok |-> TRUE, parsed |-> EmptyPayload]
    ELSE IF Len(span) = 3 /\ span[2].t = "members" /\ span[2].wf
         THEN [ok |-> TRUE, parsed |-> span[2].p]
         ELSE [ok |-> FALSE, parsed |-> EmptyPayload]

validIntents == {"ADD_ITEM", "REMOVE_ITEM", "SEARCH_ITEM", "UNKNOWN"}

\* No intent: extraction threw.
NoIntent == [intent |-> "", item |-> JsNull, quantity |-> JsNull,
             language |-> "", source |-> ""]

Failed == [ok |-> FALSE, intent |-> NoIntent]

\* A bug the validation could have: the item of a non-UNKNOWN intent is
\* not checked.
ValidateSkipsItem(parsed) ==
    IF parsed.intent \notin validIntents THEN Failed
    ELSE IF Truthy(parsed.item) /\ parsed.item.k # "str" THEN Failed
    ELSE [ok |-> TRUE,
          intent |-> [intent |-> parsed.intent,
                      item |-> IF Truthy(parsed.item)
                               THEN JsStr(Trim(ToLowerCase(parsed.item.s))) ELSE JsNull,
                      quantity |-> IF parsed.quantity.k = "num" THEN parsed.quantity
                                   ELSE JsNull,
                      language |-> IF parsed.language # "" THEN parsed.language ELSE "en",
                      source |-> "llm"]]

\* The validation and the return value of extractIntentViaLLM, with the
\* source tag parseIntent adds. A truthy item that is no string makes
\* parsed.item.toLowerCase() throw.
Validate(parsed) ==
    IF parsed.intent \notin validIntents THEN Failed
    ELSE IF parsed.intent # "UNKNOWN"
            /\ (~Truthy(parsed.item) \/ parsed.item.k # "str" \/ Trim(parsed.item.s) = "")
    THEN Failed
    ELSE IF Truthy(parsed.item) /\ parsed.item.k # "str" THEN Failed
    ELSE [ok |-> TRUE,
          intent |-> [intent |-> parsed.intent,
                      item |-> IF Truthy(parsed.item)
                               THEN JsStr(Trim(ToLowerCase(parsed.item.s))) ELSE JsNull,
                      quantity |-> IF parsed.quantity.k = "num" THEN parsed.quantity
                                   ELSE JsNull,
                      language |-> IF parsed.language # "" THEN parsed.language ELSE "en",
                      source |-> "llm"]]

\* A bug parseIntent could have: when the backend call fails it guesses an
\* intent instead of throwing.
ParseIntentWithGuess(eReply) ==
    IF ~QueryResult(eReply).ok
    THEN [ok |-> TRUE, intent |-> [intent |-> "UNKNOWN", item |-> JsNull,
                                   quantity |-> JsNull, language |-> "en",
                                   source |-> "rule-based"]]
    ELSE IF JsonMatch(QueryResult(eReply).raw) = <<>> THEN Failed
    ELSE IF ~JsonParse(JsonMatch(QueryResult(eReply).raw)).ok THEN Failed
    ELSE Validate(JsonParse(JsonMatch(QueryResult(eReply).raw)).parsed)

\* parseIntent(text) once the backend answered: the intent, or a throw. The
\* text goes into the prompt only; the answer is the backend's.
ParseIntent(eReply) ==
    IF ~QueryResult(eReply).ok THEN Failed
    ELSE IF JsonMatch(QueryResult(eReply).raw) = <<>> THEN Failed
    ELSE IF ~JsonParse(JsonMatch(QueryResult(eReply).raw)).ok THEN Failed
    ELSE Validate(JsonParse(JsonMatch(QueryResult(eReply).raw)).parsed)

\* ------------------------------------------ services/suggestionService.js

FREQUENTLY_USED ==
    << [name |-> "milk", category |-> "Dairy"],
       [name |-> "bread", category |-> "Bakery"],
       [name |-> "eggs", category |-> "General"],
       [name |-> "rice", category |-> "Grains & Staples"],
       [name |-> "onion", category |-> "Vegetables"],
       [name |-> "tomato", category |-> "Vegetables"],
       [name |-> "banana", category |-> "Fruits"],
       [name |-> "butter", category |-> "Dairy"],
       [name |-> "sugar", category |-> "Grains & Staples"],
       [name |-> "salt", category |-> "Grains & Staples"],
       [name |-> "cooking oil", category |-> "General"],
       [name |-> "toothpaste", category |-> "Personal Care"] >>

\* The entries of SUBSTITUTES in declaration order.
SUBSTITUTES ==
    << [key |-> "milk", subs |-> <<"almond milk", "oat milk", "soy milk">>],
       [key |-> "butter", subs |-> <<"margarine", "coconut oil">>],
       [key |-> "sugar", subs |-> <<"honey", "jaggery", "stevia">>],
       [key |-> "bread", subs |-> <<"whole wheat bread", "multigrain bread">>],
       [key |-> "rice", subs |-> <<"brown rice", "quinoa">>],
       [key |-> "flour", subs |-> <<"almond flour", "oat flour">>],
       [key |-> "cola", subs |-> <<"sparkling water", "lemon soda">>],
       [key |-> "cheese", subs |-> <<"tofu", "paneer">>],
       [key |-> "cream", subs |-> <<"coconut cream", "yogurt">>],
       [key |-> "pasta", subs |-> <<"whole wheat pasta", "zucchini noodles">>] >>

\* SEASONAL_BY_MONTH[month], month 0 = January.
SEASONAL_BY_MONTH(month) ==
    CASE month = 0 -> <<"peas", "carrot", "strawberry">>
      [] month = 1 -> <<"mango", "strawberry", "beet">>
      [] month = 2 -> <<"watermelon", "mango", "cucumber">>
      [] month = 3 -> <<"watermelon", "lemon", "mango">>
      [] month = 4 -> <<"watermelon", "lychee", "peach">>
      [] month = 5 -> <<"cherry", "plum", "corn">>
      [] month = 6 -> <<"peach", "blueberry", "zucchini">>
      [] month = 7 -> <<"peach", "tomato", "sweet corn">>
      [] month = 8 -> <<"apple", "grape", "spinach">>
      [] month = 9 -> <<"apple", "pear", "pumpkin">>
      [] month = 10 -> <<"orange", "sweet potato", "pomegranate">>
      [] month = 11 -> <<"orange", "pea", "carrot">>
      [] OTHER -> <<>>

HEALTHY_OPTIONS ==
    <<"spinach", "broccoli", "quinoa", "kale", "almonds", "walnuts",
      "greek yogurt", "lentils", "sweet potato", "blueberries", "avocado",
      "chia seeds">>

\* getFrequentItems(limit)
getFrequentItems(limit) ==
    SubSeq(FREQUENTLY_USED, 1, IF limit < Len(FREQUENTLY_USED) THEN limit
                                ELSE Len(FREQUENTLY_USED))

\* What SUBSTITUTES[key] gives for the keys the object literal inherits:
\* SUBSTITUTES["constructor"] is the function Object, which is truthy and
\* has length 1 without being a list of names; SUBSTITUTES["__proto__"] is
\* Object.prototype, which is truthy and has no length.
ObjectFunction == <<"function Object() { [native code] }">>
ObjectPrototype == <<>>

\* A bug the history step could have: the three suggestions are drawn
\* independently, so a name can come twice.
ShuffledWithRepeats(S) == [1..(IF Cardinality(S) < 3 THEN Cardinality(S) ELSE 3) -> S]

\* getSubstitutes(itemName): the exact key first, then the first entry whose
\* key contains the name or is contained in it.
getSubstitutes(itemName) ==
    LET key == Trim(ToLowerCase(itemName))
        exact == {i \in 1..Len(SUBSTITUTES) : SUBSTITUTES[i].key = key}
        partial == {i \in 1..Len(SUBSTITUTES) :
                       Includes(key, SUBSTITUTES[i].key) \/ Includes(SUBSTITUTES[i].key, key)}
    IN IF key = "constructor" THEN ObjectFunction
       ELSE IF key = "__proto__" THEN ObjectPrototype
       ELSE IF exact # {} THEN SUBSTITUTES[CHOOSE i \in exact : TRUE].subs
       ELSE IF partial # {}
            THEN SUBSTITUTES[CHOOSE i \in partial : \A j \in partial : i <= j].subs
            ELSE <<>>

\* frontend/script.js: appState.suggestions as declared.
InitialAppState ==
    [suggestions |-> [shape |-> "object", list |-> <<>>, frequent |-> <<>>,
                      substitutes |-> <<>>, seasonal |-> <<>>]]

\* getSeasonalItems(), month being new Date().getMonth().
getSeasonalItems(month) == SEASONAL_BY_MONTH(month)

\* getSuggestions(lastItemAdded); "" stands for null.
getSuggestions(lastItemAdded, month) ==
    [shape |-> "object", list |-> <<>>,
     frequent |-> getFrequentItems(6),
     substitutes |-> IF lastItemAdded # "" THEN getSubstitutes(lastItemAdded) ELSE <<>>,
     seasonal |-> getSeasonalItems(month)]

\* The suggestions of a response that is a plain list, and of one without.
ListSuggestions(list) ==
    [shape |-> "list", list |-> list, frequent |-> <<>>, substitutes |-> <<>>,
     seasonal |-> <<>>]
NoSuggestions ==
    [shape |-> "none", list |-> <<>>, frequent |-> <<>>, substitutes |-> <<>>,
     seasonal |-> <<>>]

LowerLetters ==
    {"a", "b", "c", "d", "e", "f", "g", "h", "i", "j", "k", "l", "m", "n", "o",
     "p", "q", "r", "s", "t", "u", "v", "w", "x", "y", "z"}

RECURSIVE ClassRunEnd(_, _)
\* [a-z\s]* from position i: the position after the run.
ClassRunEnd(s, i) ==
    IF i <= Len(s) /\ CharAt(s, i) \in LowerLetters \cup {" "}
    THEN ClassRunEnd(s, i + 1) ELSE i

NoCapture == [ok |-> FALSE, text |-> ""]
Capture(s, i, j) == [ok |-> TRUE, text |-> SubSeq(s, i, j)]

\* (?:for|of) taken as word w at position j, then \s*([a-z\s]+). When no
\* letter follows, \s* gives back one white space to the group.
CaptureAfterWord(s, j, w) ==
    IF ~StartsAt(s, j, w) THEN NoCapture
    ELSE LET k2 == j + Len(w)
             k3 == SkipSpaces(s, k2)
             e == ClassRunEnd(s, k3)
         IN IF e > k3 THEN Capture(s, k3, e - 1)
            ELSE IF k3 > k2 THEN Capture(s, k3 - 1, k3 - 1)
            ELSE NoCapture

\* \s+(?:for|of)?\s*([a-z\s]+) from position k, the position after a cue:
\* the alternatives in the order the regex engine tries them.
CaptureAfterCue(s, k) ==
    LET j == SkipSpaces(s, k)
        e == ClassRunEnd(s, j)
    IN IF j = k THEN NoCapture
       ELSE IF CaptureAfterWord(s, j, "for").ok THEN CaptureAfterWord(s, j, "for")
       ELSE IF CaptureAfterWord(s, j, "of").ok THEN CaptureAfterWord(s, j, "of")
       ELSE IF e > j THEN Capture(s, j, e - 1)
       ELSE IF j - k >= 2 THEN Capture(s, j - 1, j - 1)
       ELSE NoCapture

SubstituteCues == <<"substitute", "alternative", "instead">>

RECURSIVE SubMatchFrom(_, _)
\* t.match(/(?:substitute|alternative|instead)\s+(?:for|of)?\s*([a-z\s]+)/):
\* the group of the leftmost match.
SubMatchFrom(t, i) ==
    IF i > Len(t) THEN NoCapture
    ELSE LET hits == {c \in 1..Len(SubstituteCues) :
                         /\ StartsAt(t, i, SubstituteCues[c])
                         /\ CaptureAfterCue(t, i + Len(SubstituteCues[c])).ok}
         IN IF hits # {}
            THEN CaptureAfterCue(t, i + Len(SubstituteCues[CHOOSE c \in hits : TRUE]))
            ELSE SubMatchFrom(t, i + 1)

\* getRunningLowItems(): the names counted at least twice and not in the list.
getRunningLowItems(list, hist) ==
    {n \in DOMAIN hist : hist[n] >= 2 /\ \A i \in 1..Len(list) : list[i].name # n}

\* The sequences of k distinct elements of S.
Arrangements(S, k) ==
    {f \in [1..k -> S] : \A i, j \in 1..k : i # j => f[i] # f[j]}

\* array.sort(() => 0.5 - Math.random()).slice(0, 3): any order can come out.
ShuffledTop3(S) == Arrangements(S, IF Cardinality(S) < 3 THEN Cardinality(S) ELSE 3)

SomeIncludes(t, cues) == \E k \in cues : Includes(t, k)

NoAdvice == [type |-> "", category |-> "", suggestions |-> <<>>, message |-> ""]

\* handleAdviceQuestion(text): the results it can return (NoAdvice for null).
handleAdviceQuestion(text, list, hist, month) ==
    LET t == ToLowerCase(text)
        subMatch == SubMatchFrom(t, 1)
        targetItem == Trim(subMatch.text)
        subs == getSubstitutes(targetItem)
        isAdvice == SomeIncludes(t, {"suggest", "recommend", "what should", "any ideas",
                                     "what to buy", "what do i need"})
        isBestSeason == SomeIncludes(t, {"best", "season"})
        isHealthy == SomeIncludes(t, {"healthy", "diet", "nutritious"})
        historyItems == getRunningLowItems(list, hist)
    IN IF subMatch.ok /\ subs # <<>>
       THEN {[type |-> "SUBSTITUTE", category |-> "substitute", suggestions |-> subs,
              message |-> "Instead of " \o targetItem
                          \o ", you could try these alternatives!"]}
       ELSE IF ~isAdvice /\ ~isBestSeason /\ ~isHealthy THEN {NoAdvice}
       ELSE IF isAdvice /\ ~isBestSeason /\ ~isHealthy /\ historyItems # {}
       THEN {[type |-> "HISTORY", category |-> "history", suggestions |-> sh,
              message |-> "Looking at your past purchases, it looks like you might be running low on these items."]
             : sh \in ShuffledTop3(historyItems)}
       ELSE IF isBestSeason \/ Includes(t, "season") \/ Includes(t, "fruit")
       THEN {[type |-> "SEASONAL", category |-> "seasonal",
              suggestions |-> getSeasonalItems(month),
              message |-> "Here are some great seasonal picks for this time of year!"]}
       ELSE IF isHealthy
       THEN {[type |-> "HEALTHY", category |-> "healthy", suggestions |-> sh,
              message |-> "Here are some great nutritious and healthy options for you!"]
             : sh \in ShuffledTop3({HEALTHY_OPTIONS[i] : i \in 1..Len(HEALTHY_OPTIONS)})}
       ELSE {[type |-> "HISTORY", category |-> "general",
              suggestions |-> [i \in 1..3 |-> getFrequentItems(3)[i].name],
              message |-> "I can certainly help you brainstorm! Here are some common staples you might need."]}

\* ----------------------------------------------------- routes/nlpRoutes.js

\* A request value that was not sent (JS undefined).
Undef == [k |-> "undef", s |-> "", n |-> 0]

\* store.searchItems(query)
SearchItems(list, query) ==
    SelectSeq(list, LAMBDA item : Includes(item.name, Trim(ToLowerCase(query))))

\* intent.maxPrice and intent.qualifier as the route and the response read
\* them: extractIntentViaLLM returns an object with the keys intent, item,
\* quantity and language only, and parseIntent adds source, so whatever the
\* payload carried both keys are absent (NoNumber and "").
IntentMaxPrice(intent) == NoNumber
IntentQualifier(intent) == ""

\* The intent key of a response: the Intent, and the category key that only
\* the advice response adds ("" when the key is absent).
RespIntent(intent, kind, category) ==
    [intent |-> kind, item |-> intent.item, quantity |-> intent.quantity,
     language |-> intent.language, source |-> intent.source, category |-> category,
     maxPrice |-> IntentMaxPrice(intent), qualifier |-> IntentQualifier(intent)]

NoRespIntent == RespIntent(NoIntent, "", "")

\* A response: its status, which res.json call made it (shape), and its keys
\* ("" , NoItem, NoConstraint, <<>> for a key that is null or absent).
NoResp ==
    [status |-> 0, shape |-> "none", error |-> "", hint |-> "",
     intent |-> NoRespIntent, type |-> "", searchType |-> "", category |-> "",
     results |-> <<>>, message |-> "", affectedItem |-> NoItem,
     priceFilter |-> NoConstraint, catalogResults |-> <<>>, listResults |-> <<>>,
     filters |-> NoFilters, translatedText |-> "", list |-> <<>>,
     suggestions |-> NoSuggestions]

\* A bug the validation could have: a text of white space only is accepted.
IsValidTextNoTrim(text) == text.k = "str" /\ text.s # ""

\* The negation of: !text || typeof text !== "string" || text.trim() === "".
IsValidText(text) == text.k = "str" /\ text.s # "" /\ Trim(text.s) # ""

ValidationError ==
    [NoResp EXCEPT !.status = 400, !.shape = "validation_error",
                   !.error = "Request body must contain a non-empty 'text' field."]

ExtractionUnavailable ==
    [NoResp EXCEPT !.status = 503, !.shape = "llm_error", !.error = "LLM not available",
                   !.hint = "Check your HF_API_KEY in .env and ensure the Hugging Face API is reachable."]

\* translateToEnglish(text, langTag) up to its backend call. A tag that is
\* truthy and no string makes langTag.split throw.
TranslateStart(text, lang, apiKey) ==
    IF lang.k = "num" /\ lang.n # 0
    THEN [called |-> FALSE,
          result |-> [translatedText |-> "", wasTranslated |-> FALSE, threw |-> TRUE]]
    ELSE [called |-> TranslationCallsBackend(IF lang.k = "str" THEN lang.s ELSE "", apiKey),
          result |-> Untranslated(text)]

NoGeneric == [category |-> "", results |-> <<>>, message |-> ""]

\* A bug the generic check could have: household is tested before staples.
GenericMatchHouseholdFirst(q) ==
    IF Includes(q, "household") \/ Includes(q, "cleaning")
    THEN [category |-> "household",
          results |-> <<"detergent", "soap", "toothpaste", "toilet paper">>,
          message |-> "Here are some common household items for your needs"]
    ELSE IF Includes(q, "basic") \/ Includes(q, "staple")
    THEN [category |-> "staples",
          results |-> <<"rice", "flour", "sugar", "salt", "cooking oil">>,
          message |-> "Here are some basic grocery items you may need"]
    ELSE IF Includes(q, "daily need") \/ Includes(q, "essential") \/ Includes(q, "groceries")
            \/ Includes(q, "grocery") \/ Includes(q, "food")
    THEN [category |-> "essentials",
          results |-> <<"rice", "milk", "eggs", "bread", "cooking oil">>,
          message |-> "Here are some essential groceries you may need"]
    ELSE NoGeneric

\* The generic category of a lowercased text, staples before household
\* before essentials.
GenericMatch(q) ==
    IF Includes(q, "basic") \/ Includes(q, "staple")
    THEN [category |-> "staples",
          results |-> <<"rice", "flour", "sugar", "salt", "cooking oil">>,
          message |-> "Here are some basic grocery items you may need"]
    ELSE IF Includes(q, "household") \/ Includes(q, "cleaning")
    THEN [category |-> "household",
          results |-> <<"detergent", "soap", "toothpaste", "toilet paper">>,
          message |-> "Here are some common household items for your needs"]
    ELSE IF Includes(q, "daily need") \/ Includes(q, "essential") \/ Includes(q, "groceries")
            \/ Includes(q, "grocery") \/ Includes(q, "food")
    THEN [category |-> "essentials",
          results |-> <<"rice", "milk", "eggs", "bread", "cooking oil">>,
          message |-> "Here are some essential groceries you may need"]
    ELSE NoGeneric

\* The filters built from the Intent. The Intent the extractor returns has
\* no brand, maxPrice, minPrice, size or qualifier key, so each reads
\* undefined and gives null.
FiltersFromIntent(intent) == NoFilters

\* A bug the override could have: EQUAL sets the upper bound only.
OverrideEqualAsMax(filters, pc) ==
    IF pc.operator = "LESS_THAN" THEN [filters EXCEPT !.maxPrice = Num(pc.value)]
    ELSE IF pc.operator = "GREATER_THAN" THEN [filters EXCEPT !.minPrice = Num(pc.value)]
    ELSE IF pc.operator = "EQUAL" THEN [filters EXCEPT !.maxPrice = Num(pc.value)]
    ELSE filters

\* The override of the filters by the price constraint of the text.
OverrideFilters(filters, pc) ==
    IF pc.operator = "LESS_THAN" THEN [filters EXCEPT !.maxPrice = Num(pc.value)]
    ELSE IF pc.operator = "GREATER_THAN" THEN [filters EXCEPT !.minPrice = Num(pc.value)]
    ELSE IF pc.operator = "EQUAL"
    THEN [filters EXCEPT !.maxPrice = Num(pc.value), !.minPrice = Num(pc.value)]
    ELSE filters

\* The keys every 200 response of POST /process has.
Reply(shape, respIntent, message, englishText, wasTranslated, list) ==
    [NoResp EXCEPT !.status = 200, !.shape = shape, !.intent = respIntent,
                   !.message = message,
                   !.translatedText = IF wasTranslated THEN englishText ELSE "",
                   !.list = GetList(list)]

Unchanged(resp, list, id, hist) ==
    [resp |-> resp, list |-> list, nextId |-> id, hist |-> hist]

\* The branch for UNKNOWN or a falsy item: advice, generic category, or
\* the could-not-understand reply.
RespondUnknown(intent, text, englishText, wasTranslated, list, id, hist, month) ==
    LET advice == handleAdviceQuestion(englishText, list, hist, month)
        generic == GenericMatch(ToLowerCase(englishText))
    IN IF advice # {NoAdvice}
       THEN {Unchanged([Reply("advice", RespIntent(intent, "SUGGEST_ITEMS", a.category),
                              a.message, englishText, wasTranslated, list)
                           EXCEPT !.type = a.type,
                                  !.suggestions = ListSuggestions(a.suggestions)],
                       list, id, hist) : a \in advice}
       ELSE IF generic # NoGeneric
       THEN {Unchanged([Reply("generic",
                              [intent |-> "SEARCH_ITEM", item |-> text, quantity |-> JsNull,
                               language |-> "en", source |-> "rule-based", category |-> ""],
                              generic.message, englishText, wasTranslated, list)
                           EXCEPT !.searchType = "GENERIC", !.category = generic.category,
                                  !.results = generic.results],
                       list, id, hist)}
       ELSE {Unchanged(Reply("unknown", RespIntent(intent, intent.intent, ""),
                             "Sorry, I could not understand that command.",
                             englishText, wasTranslated, list),
                       list, id, hist)}

\* case "ADD_ITEM": qty = intent.quantity || 1, and intent.category is undefined.
RespondAdd(intent, englishText, wasTranslated, list, id, hist, month) ==
    LET qty == IF intent.quantity.k = "num" /\ intent.quantity.n # 0
               THEN intent.quantity.n ELSE 1
        r == AddItem(list, id, hist, intent.item.s, qty, NoCategory)
    IN {[resp |-> [Reply("action", RespIntent(intent, intent.intent, ""),
                         "Added to your list", englishText, wasTranslated, r.list)
                      EXCEPT !.affectedItem = r.item,
                             !.suggestions = getSuggestions(intent.item.s, month)],
         list |-> r.list, nextId |-> r.nextId, hist |-> r.hist]}

\* A bug the REMOVE case could have: removing an item also drops its count
\* from the history.
RespondRemoveForgets(intent, englishText, wasTranslated, list, id, hist, month) ==
    LET r == RemoveItem(list, intent.item.s)
        n == NormalizeName(intent.item.s)
    IN {[resp |-> [Reply("action", RespIntent(intent, intent.intent, ""),
                         IF r.item # NoItem THEN "Removed from your list"
                         ELSE "was not found in your list.",
                         englishText, wasTranslated, r.list)
                      EXCEPT !.affectedItem = r.item,
                             !.suggestions = getSuggestions("", month)],
         list |-> r.list, nextId |-> id,
         hist |-> [k \in DOMAIN hist |-> IF k = n THEN 0 ELSE hist[k]]]}

\* case "REMOVE_ITEM"
RespondRemove(intent, englishText, wasTranslated, list, id, hist, month) ==
    LET r == RemoveItem(list, intent.item.s)
    IN {[resp |-> [Reply("action", RespIntent(intent, intent.intent, ""),
                         IF r.item # NoItem THEN "Removed from your list"
                         ELSE "was not found in your list.",
                         englishText, wasTranslated, r.list)
                      EXCEPT !.affectedItem = r.item,
                             !.suggestions = getSuggestions("", month)],
         list |-> r.list, nextId |-> id, hist |-> hist]}

\* case "SEARCH_ITEM": the generic category of the item, else the catalog
\* search under the filters.
RespondSearch(intent, englishText, wasTranslated, list, id, hist) ==
    LET generic == GenericMatch(ToLowerCase(intent.item.s))
        priceConstraint == extractPriceConstraint(englishText)
        filters == OverrideFilters(FiltersFromIntent(intent), priceConstraint)
        catalogResults == searchCatalog(intent.item.s, filters)
    IN IF generic # NoGeneric
       THEN {Unchanged([Reply("generic", RespIntent(intent, intent.intent, ""),
                              generic.message, englishText, wasTranslated, list)
                           EXCEPT !.searchType = "GENERIC", !.category = generic.category,
                                  !.results = generic.results],
                       list, id, hist)}
       ELSE {Unchanged([Reply("search", RespIntent(intent, intent.intent, ""),
                              IF catalogResults # <<>> THEN "Found product(s)"
                              ELSE "No products found",
                              englishText, wasTranslated, list)
                           EXCEPT !.priceFilter = priceConstraint,
                                  !.catalogResults = catalogResults,
                                  !.listResults = SearchItems(list, intent.item.s),
                                  !.filters = filters],
                       list, id, hist)}

\* Steps 2b and 3 of POST /process for a parsed Intent: the responses it
\* can send, each with the store it leaves.
Respond(intent, text, englishText, wasTranslated, list, id, hist, month) ==
    IF intent.intent = "UNKNOWN" \/ ~Truthy(intent.item)
    THEN RespondUnknown(intent, text, englishText, wasTranslated, list, id, hist, month)
    ELSE IF intent.intent = "ADD_ITEM"
    THEN RespondAdd(intent, englishText, wasTranslated, list, id, hist, month)
    ELSE IF intent.intent = "REMOVE_ITEM"
    THEN RespondRemove(intent, englishText, wasTranslated, list, id, hist, month)
    ELSE RespondSearch(intent, englishText, wasTranslated, list, id, hist)

\* ============================================================ input domains

\* Item names as callers may pass them to the store (raw) and their normal forms.
RawNames == {"apples", " Apples ", "MILK"}
Quantities == {1, 2, 3}

\* Item names the history tracking is exercised with.
HistoryRawNames == {"MILK", "Constructor"}

\* Names whose category the keyword table decides, one of them ("Rice Cake")
\* holding two keywords of different categories.
CategoryRawNames == {"Tomatoes", "spinach", "Almond Milk", "Rice Cake", "batteries"}

\* A name that holds a generic category cue and is added all the same.
GenericRawNames == {"basic bread"}

\* Item names the store holds when handleAdviceQuestion is called directly.
AdviceNames == <<"milk", "apples", "bread", "rice">>

Names == {NormalizeName(n) : n \in RawNames \cup HistoryRawNames \cup CategoryRawNames
                                  \cup GenericRawNames}
         \cup {AdviceNames[i] : i \in 1..Len(AdviceNames)}
Categories == {NoCategory, "Snacks"}

\* Queries and filter values the search is exercised with.
Queries == {"apple", " Apples", "milk", "toothpaste", "find whole wheat bread now", "a"}
Brands == {"", "Fresh"}
MaxPrices == {NoNumber, Num(250), Num(400)}
MinPrices == {NoNumber, Num(300)}
Sizes == {"", "1 KG"}
Qualifiers == {"", "Organic", "milk"}
FilterSets == [brand : Brands, maxPrice : MaxPrices, minPrice : MinPrices,
               size : Sizes, qualifier : Qualifiers]

\* g has every constraint of f, with the same value, and possibly more.
AddsConstraints(f, g) ==
    /\ f.brand # "" => g.brand = f.brand
    /\ f.maxPrice.set => g.maxPrice = f.maxPrice
    /\ f.minPrice.set => g.minPrice = f.minPrice
    /\ f.size # "" => g.size = f.size
    /\ f.qualifier # "" => g.qualifier = f.qualifier

\* Request bodies of POST /api/process: the text key and the lang key.
Texts ==
    {JsStr("Find toothpaste under $4"), JsStr("find milk over 2.50"),
     JsStr("apples for 3"), JsStr("Find organic apples"), JsStr(" Add 2 milk"),
     JsStr("Remove onion"), JsStr("substitute for milk"), JsStr("what should i buy"),
     JsStr("household cleaning"), JsStr("do doodh jodo"),
     Undef, JsNum(7), JsStr(""), JsStr("   ")}
Langs == {Undef, JsStr("hi-IN"), JsStr("ja-JP"), JsStr("EN-gb"), JsNum(5)}

\* Answers of the translation backend.
TReplies ==
    {[kind |-> "timeout", text |-> ""], [kind |-> "http_error", text |-> ""],
     [kind |-> "malformed", text |-> ""], [kind |-> "ok", text |-> " add two milk "]}

\* Objects the extractor backend may put in its reply.
Pay(intent, item, quantity) ==
    [EmptyPayload EXCEPT !.intent = intent, !.item = item, !.quantity = quantity,
                         !.language = "en"]
Payloads ==
    {Pay("ADD_ITEM", JsStr("milk"), JsNum(2)),
     Pay("ADD_ITEM", JsStr(" Milk "), JsNull),
     Pay("REMOVE_ITEM", JsStr("milk"), JsNull),
     Pay("REMOVE_ITEM", JsStr("onion"), JsNull),
     [Pay("SEARCH_ITEM", JsStr("toothpaste"), JsNull) EXCEPT !.maxPrice = JsNum(900)],
     [Pay("SEARCH_ITEM", JsStr("Apples"), JsNull) EXCEPT !.qualifier = JsStr("organic")],
     Pay("SEARCH_ITEM", JsStr("milk"), JsNull),
     Pay("SEARCH_ITEM", JsStr("household items"), JsNull),
     Pay("UNKNOWN", JsNull, JsNull),
     Pay("BUY_ITEM", JsStr("milk"), JsNum(1)),
     Pay("ADD_ITEM", JsNull, JsNum(1)),
     Pay("REMOVE_ITEM", JsStr("   "), JsNull),
     Pay("SEARCH_ITEM", JsNum(5), JsNull)}

\* Answers of the extractor backend: no answer in 30 s, a non-2xx status, a
\* 2xx body without content, and content of several shapes.
EReplies ==
    {[kind |-> "timeout", raw |-> <<>>], [kind |-> "http_error", raw |-> <<>>],
     [kind |-> "no_content", raw |-> <<>>],
     [kind |-> "content", raw |-> <<Prose>>],
     [kind |-> "content", raw |-> <<Close, Prose, Open>>],
     [kind |-> "content", raw |-> <<Open, Garbage, Close>>],
     [kind |-> "content", raw |-> <<Open, Close>>],
     [kind |-> "content",
      raw |-> <<Prose, Open, Members(Pay("ADD_ITEM", JsStr("milk"), JsNum(1))), Close, Prose>>]}
    \cup {[kind |-> "content", raw |-> <<Open, Members(p), Close>>] : p \in Payloads}

\* Months new Date().getMonth() is sampled at.
Months == {0, 9}

\* Request slots.
ReqIds == {"r1"}

\* Requests in flight at the same time, and what they and the backends send.
ConcurrentReqIds == {"r1", "r2"}
ConcurrentTexts == {JsStr(" Add 2 milk"), JsStr("do doodh jodo")}
ConcurrentLangs == {Undef, JsStr("hi-IN")}
ConcurrentEReplies ==
    {[kind |-> "timeout", raw |-> <<>>]}
    \cup {[kind |-> "content", raw |-> <<Open, Members(p), Close>>] :
             p \in {Pay("ADD_ITEM", JsStr("milk"), JsNum(2)),
                    Pay("ADD_ITEM", JsStr(" Milk "), JsNull),
                    Pay("REMOVE_ITEM", JsStr("milk"), JsNull)}}

\* Replies of the extractor backend that exercise the decoding and the
\* validation: quantities that are no positive integer, an item with
\* UNKNOWN, and payloads wrapped in prose with and without further braces.
ExtractTexts == {JsStr("add milk"), JsStr("what should i buy")}
ExtractPayloads ==
    {Pay("ADD_ITEM", JsStr("milk"), JsNum(2)),
     Pay("ADD_ITEM", JsStr("milk"), JsNull),
     Pay("ADD_ITEM", JsStr("milk"), JsNum(0)),
     Pay("ADD_ITEM", JsStr("milk"), JsNum(0 - 2)),
     Pay("ADD_ITEM", JsStr("milk"), JsStr("two")),
     Pay("REMOVE_ITEM", JsStr(" Milk"), JsNum(1)),
     Pay("SEARCH_ITEM", JsStr("Apples"), JsNull),
     Pay("UNKNOWN", JsNull, JsNull),
     Pay("UNKNOWN", JsStr(" Milk "), JsNull),
     Pay("UNKNOWN", JsStr("  "), JsNull),
     Pay("ADD_ITEM", JsStr("  "), JsNum(1)),
     Pay("BUY_ITEM", JsStr("milk"), JsNum(1))}
FirstPayload == Pay("ADD_ITEM", JsStr("milk"), JsNum(2))
SecondPayload == Pay("REMOVE_ITEM", JsStr("apples"), JsNull)
ExtractReplies ==
    {[kind |-> "content", raw |-> <<Open, Members(p), Close>>] : p \in ExtractPayloads}
    \cup {[kind |-> "content", raw |-> raw] :
             raw \in {<<Prose, Open, Members(FirstPayload), Close, Prose>>,
                      <<Open, Members(FirstPayload), Close, Prose, Close>>,
                      <<Open, Members(FirstPayload), Close, Prose, Open, Close, Prose>>,
                      <<Prose, Open, Members(FirstPayload), Close, Prose,
                        Open, Members(SecondPayload), Close>>,
                      <<Prose, Close, Open, Members(FirstPayload), Close>>,
                      <<Prose>>}}
    \cup {[kind |-> "timeout", raw |-> <<>>]}

\* Commands and extractor replies with generic category cues, one, several
\* or none.
GenericTexts ==
    {JsStr("household cleaning"), JsStr("Basic household food"), JsStr("daily need"),
     JsStr("suggest basic staples"), JsStr("hello")}
GenericReplies ==
    {[kind |-> "content", raw |-> <<Open, Members(p), Close>>] :
        p \in {Pay("SEARCH_ITEM", JsStr("household items"), JsNull),
               Pay("SEARCH_ITEM", JsStr("Basic household food"), JsNull),
               Pay("SEARCH_ITEM", JsStr("cleaning food"), JsNull),
               Pay("SEARCH_ITEM", JsStr("grocery essentials"), JsNull),
               Pay("SEARCH_ITEM", JsStr("milk"), JsNull),
               Pay("UNKNOWN", JsNull, JsNull),
               Pay("ADD_ITEM", JsStr("basic bread"), JsNull)}}

\* Commands typed in the frontend and the extractor's replies to them.
FrontendTexts == {JsStr("add milk"), JsStr("what should i buy"), JsStr("what is in season")}
FrontendReplies ==
    {[kind |-> "timeout", raw |-> <<>>]}
    \cup {[kind |-> "content", raw |-> <<Open, Members(p), Close>>] :
             p \in {Pay("ADD_ITEM", JsStr("milk"), JsNull),
                    Pay("REMOVE_ITEM", JsStr("milk"), JsNull),
                    Pay("SEARCH_ITEM", JsStr("milk"), JsNull),
                    Pay("UNKNOWN", JsNull, JsNull)}}

\* A slot that holds no request.
IdleReq ==
    [pc |-> "idle", text |-> Undef, lang |-> Undef, englishText |-> "",
     wasTranslated |-> FALSE, translationThrew |-> FALSE, tReply |-> NoTReply,
     eReply |-> NoEReply, extraction |-> "none", intent |-> NoIntent,
     calls |-> <<>>, extractorText |-> "", resp |-> NoResp]

\* Texts extractPriceConstraint is called with: two fragments joined by a
\* space, so that cues of several families meet in one text.
PriceFragments ==
    {"under $4", "over 2.50", "for 3", "Exactly 5 dollars", "BELOW 3 bucks",
     "less than  $ 12.349", "maximum 10", "min 1", "above", "find milk", "thunder7"}
PriceTexts == {a \o " " \o b : a, b \in PriceFragments} \cup {""}

\* No direct call of extractPriceConstraint, and none of handleAdviceQuestion.
NoPriceCall == [text |-> "", done |-> FALSE, result |-> NoConstraint]
NoAdviceCall == [text |-> "", month |-> 0, done |-> FALSE, result |-> NoAdvice]

\* Texts handleAdviceQuestion is called with.
AdviceTexts ==
    {"substitute for milk", "Alternative to almond milk?", "instead of butte",
     "substitute for constructor", "suggest a substitute for tofu",
     "substitute for xyz", "what should i buy", "fruit", "any ideas for fruit",
     "what is in season", "best deals", "hello"}

\* What was done with a name before the call: never added, added twice and
\* removed, or added twice and still in the list.
AdviceStatus == [1..Len(AdviceNames) -> {"never", "low", "listed"}]

RECURSIVE AdviceStore(_, _)
\* The store after the addItem and removeItem calls that give the first i
\* names their status.
AdviceStore(status, i) ==
    IF i = 0 THEN [list |-> <<>>, nextId |-> 1, hist |-> [n \in Names |-> 0]]
    ELSE LET st == AdviceStore(status, i - 1)
             a1 == AddItem(st.list, st.nextId, st.hist, AdviceNames[i], 1, NoCategory)
             a2 == AddItem(a1.list, a1.nextId, a1.hist, AdviceNames[i], 1, NoCategory)
         IN IF status[i] = "never" THEN st
            ELSE IF status[i] = "listed"
            THEN [list |-> a2.list, nextId |-> a2.nextId, hist |-> a2.hist]
            ELSE [list |-> RemoveItem(a2.list, AdviceNames[i]).list,
                  nextId |-> a2.nextId, hist |-> a2.hist]

\* ==================================================== specifications

vars == <<shoppingList, nextId, purchaseHistory, lastCall, sQuery, sFilters, sResults, sCalls, sFirst,
          hfApiKey, req, pCall, aCall, snapshot, appState, addEvents>>

NoSearch == [filters |-> NoFilters, results |-> <<>>]

\* ---- the store called directly

NoCall ==
    [op |-> "none", name |-> "", quantity |-> 0, category |-> NoCategory,
     created |-> FALSE, item |-> NoItem, low |-> {}]

InitStore ==
    /\ shoppingList = <<>>
    /\ nextId = 1
    /\ purchaseHistory = [n \in Names |-> 0]
    /\ addEvents = [n \in Names |-> 0]
    /\ lastCall = NoCall
    /\ sQuery = "" /\ sFilters = NoFilters /\ sResults = <<>> /\ sCalls = 0
    /\ sFirst = NoSearch
    /\ hfApiKey = FALSE
    /\ req = [r \in ReqIds |-> IdleReq]
    /\ pCall = NoPriceCall
    /\ aCall = NoAdviceCall
    /\ snapshot = NoSnapshot
    /\ appState = InitialAppState

\* A direct call addItem(name, q, category).
AddItemCall(names, quantities, categories) ==
    \E name \in names, q \in quantities, c \in categories :
        \E r \in {AddItem(shoppingList, nextId, purchaseHistory, name, q, c)} :
           /\ r.hist[r.item.name] <= MaxCount
           /\ r.nextId <= MaxId + 1
           /\ r.item.quantity <= MaxQuantity
           /\ shoppingList' = r.list
           /\ nextId' = r.nextId
           /\ purchaseHistory' = r.hist
           /\ addEvents[NormalizeName(name)] < MaxCount
           /\ lastCall' = [NoCall EXCEPT !.op = "addItem", !.name = name, !.quantity = q,
                                         !.category = c,
                                         !.created = (r.nextId # nextId),
                                         !.item = r.item]
           /\ addEvents' = [addEvents EXCEPT ![NormalizeName(name)] = @ + 1]
           /\ snapshot' = SnapshotAfterAdd(snapshot, r.item)
           /\ UNCHANGED <<searchVars, pCall, aCall, appState, processVars>>

CallAddItem == AddItemCall(RawNames, Quantities, Categories)

\* A direct call removeItem(name).
RemoveItemCall(names) ==
    \E name \in names :
        \E r \in {RemoveItem(shoppingList, name)} :
           /\ shoppingList' = r.list
           /\ lastCall' = [NoCall EXCEPT !.op = "removeItem", !.name = name, !.item = r.item]
           /\ snapshot' = SnapshotAfterRemove(snapshot, r.item)
           /\ UNCHANGED <<nextId, purchaseHistory, addEvents>>
           /\ UNCHANGED <<searchVars, pCall, aCall, appState, processVars>>

CallRemoveItem == RemoveItemCall(RawNames)

\* clearList()
CallClearList ==
    /\ shoppingList' = <<>>
    /\ nextId' = 1
    /\ lastCall' = [NoCall EXCEPT !.op = "clearList"]
    /\ snapshot' = SnapshotAfterClear(snapshot)
    /\ UNCHANGED <<purchaseHistory, addEvents>>
    /\ UNCHANGED <<searchVars, pCall, aCall, appState, processVars>>

\* getRunningLowItems()
CallGetRunningLowItems ==
    /\ lastCall' = [NoCall EXCEPT !.op = "getRunningLowItems",
                                  !.low = getRunningLowItems(shoppingList, purchaseHistory)]
    /\ UNCHANGED <<storeVars, addEvents, searchVars, unitVars, processVars>>

NextStore == CallAddItem \/ CallRemoveItem \/ CallClearList

SpecStore == InitStore /\ [][NextStore]_vars

\* ---- the store called directly, with the running-low query

HistoryAddItem == AddItemCall(HistoryRawNames, {1}, {NoCategory})

HistoryRemoveItem == RemoveItemCall(HistoryRawNames)

NextHistory ==
    HistoryAddItem \/ HistoryRemoveItem \/ CallClearList \/ CallGetRunningLowItems

SpecHistory == InitStore /\ [][NextHistory]_vars

\* ---- the store called directly by a caller that keeps what getList returned

\* const kept = getList()
CallGetList ==
    /\ ~snapshot.taken
    /\ snapshot' = TakeSnapshot(shoppingList)
    /\ lastCall' = [NoCall EXCEPT !.op = "getList"]
    /\ UNCHANGED <<storeVars, addEvents, searchVars, pCall, aCall, appState, processVars>>

NextSnapshot == HistoryAddItem \/ HistoryRemoveItem \/ CallClearList \/ CallGetList

SpecSnapshot == InitStore /\ [][NextSnapshot]_vars

\* ---- the store called directly, with names of several categories

CategoryAddItem == AddItemCall(CategoryRawNames, {1}, Categories)

CategoryRemoveItem == RemoveItemCall({"spinach"})

NextCategory == CategoryAddItem \/ CategoryRemoveItem

SpecCategory == InitStore /\ [][NextCategory]_vars

\* ---- the catalog search called directly

InitSearch ==
    /\ shoppingList = <<>>
    /\ nextId = 1
    /\ purchaseHistory = [n \in Names |-> 0]
    /\ addEvents = [n \in Names |-> 0]
    /\ lastCall = NoCall
    /\ sQuery \in Queries
    /\ sFilters \in FilterSets
    /\ sResults = <<>>
    /\ sCalls = 0
    /\ sFirst = NoSearch
    /\ hfApiKey = FALSE
    /\ req = [r \in ReqIds |-> IdleReq]
    /\ pCall = NoPriceCall
    /\ aCall = NoAdviceCall
    /\ snapshot = NoSnapshot
    /\ appState = InitialAppState

\* searchCatalog(sQuery, sFilters)
CallSearchCatalog ==
    /\ sCalls = 0
    /\ sResults' = searchCatalog(sQuery, sFilters)
    /\ sCalls' = 1
    /\ UNCHANGED <<sQuery, sFilters, sFirst, storeVars, addEvents, lastCall, processVars, unitVars>>

\* A second call for the same query with another set of filters.
CallSearchCatalogAgain ==
    /\ sCalls = 1
    /\ \E g \in FilterSets :
          /\ sFilters' = g
          /\ sResults' = searchCatalog(sQuery, g)
    /\ sFirst' = [filters |-> sFilters, results |-> sResults]
    /\ sCalls' = 2
    /\ UNCHANGED <<sQuery, storeVars, addEvents, lastCall, processVars, unitVars>>

NextSearch == CallSearchCatalog \/ CallSearchCatalogAgain

SpecSearch == InitSearch /\ [][NextSearch]_vars

\* ---- POST /api/process and DELETE /api/list

InitProcess ==
    /\ shoppingList = <<>>
    /\ nextId = 1
    /\ purchaseHistory = [n \in Names |-> 0]
    /\ addEvents = [n \in Names |-> 0]
    /\ lastCall = NoCall
    /\ sQuery = "" /\ sFilters = NoFilters /\ sResults = <<>> /\ sCalls = 0
    /\ sFirst = NoSearch
    /\ hfApiKey \in BOOLEAN
    /\ req = [r \in ReqIds |-> IdleReq]
    /\ pCall = NoPriceCall
    /\ aCall = NoAdviceCall
    /\ snapshot = NoSnapshot
    /\ appState = InitialAppState

\* A bug the route could have: a backend translation that did not succeed is
\* awaited again, without bound, instead of falling back to the original text.
AfterTranslationRetries(q, result) ==
    LET q2 == [q EXCEPT !.englishText = IF result.threw THEN q.text.s
                                        ELSE result.translatedText,
                        !.wasTranslated = ~result.threw /\ result.wasTranslated,
                        !.translationThrew = result.threw]
    IN IF q.pc = "translating" /\ ~result.wasTranslated THEN q
       ELSE IF hfApiKey
       THEN [q2 EXCEPT !.pc = "extracting", !.calls = Append(@, "extractor")]
       ELSE [q2 EXCEPT !.pc = "done", !.extraction = "failed",
                       !.resp = ExtractionUnavailable]

\* A bug the route could have: parseIntent is given the text of the request
\* and not the result of the translation step.
AfterTranslationOriginalText(q, result) ==
    LET q2 == [q EXCEPT !.englishText = IF result.threw THEN q.text.s
                                        ELSE result.translatedText,
                        !.wasTranslated = ~result.threw /\ result.wasTranslated,
                        !.translationThrew = result.threw,
                        !.extractorText = q.text.s]
    IN IF hfApiKey
       THEN [q2 EXCEPT !.pc = "extracting", !.calls = Append(@, "extractor")]
       ELSE [q2 EXCEPT !.pc = "done", !.extraction = "failed",
                       !.resp = ExtractionUnavailable]

\* The request after the translation step resolved to result (or threw):
\* parseIntent(englishText) is called (extractorText is its argument), and
\* query throws at once when there is no key.
AfterTranslation(q, result) ==
    LET q1 == [q EXCEPT !.englishText = IF result.threw THEN q.text.s
                                        ELSE result.translatedText,
                        !.wasTranslated = ~result.threw /\ result.wasTranslated,
                        !.translationThrew = result.threw]
        q2 == [q1 EXCEPT !.extractorText = q1.englishText]
    IN IF hfApiKey
       THEN [q2 EXCEPT !.pc = "extracting", !.calls = Append(@, "extractor")]
       ELSE [q2 EXCEPT !.pc = "done", !.extraction = "failed",
                       !.resp = ExtractionUnavailable]

\* POST /api/process arrives: validation, then translateToEnglish up to its
\* backend call or, when it makes none, on to parseIntent.
SubmitFrom(r, texts, langs) ==
    /\ req[r].pc = "idle"
    /\ \E text \in texts, lang \in langs :
          \E q \in {[IdleReq EXCEPT !.text = text, !.lang = lang]} :
             IF ~IsValidText(text)
             THEN req' = [req EXCEPT ![r] = [q EXCEPT !.pc = "done",
                                                      !.resp = ValidationError]]
             ELSE \E t \in {TranslateStart(Trim(text.s),
                                           IF lang = Undef THEN JsStr("en-US") ELSE lang,
                                           hfApiKey)} :
                     IF t.called
                     THEN req' = [req EXCEPT ![r] =
                                     [q EXCEPT !.pc = "translating",
                                               !.calls = <<"translation">>]]
                     ELSE req' = [req EXCEPT ![r] = AfterTranslation(q, t.result)]
    /\ UNCHANGED <<storeVars, addEvents, lastCall, searchVars, unitVars, hfApiKey>>

Submit(r) == SubmitFrom(r, Texts, Langs)

\* The translation backend answers, or the 30 s timeout fires.
TranslateReturn(r) ==
    /\ req[r].pc = "translating"
    /\ \E tReply \in TReplies :
          req' = [req EXCEPT ![r] =
                     AfterTranslation([req[r] EXCEPT !.tReply = tReply],
                                      TranslationResult(Trim(req[r].text.s), tReply))]
    /\ UNCHANGED <<storeVars, addEvents, lastCall, searchVars, unitVars, hfApiKey>>

\* The extractor backend answers, or the 30 s timeout fires: parseIntent
\* returns or throws, and the route applies the Intent and responds.
ExtractReturnFrom(r, eReplies) ==
    /\ req[r].pc = "extracting"
    /\ \E eReply \in eReplies, month \in Months :
          \E o \in {ParseIntent(eReply)} :
             IF ~o.ok
             THEN /\ req' = [req EXCEPT ![r] = [@ EXCEPT !.pc = "done", !.eReply = eReply,
                                                         !.extraction = "failed",
                                                         !.resp = ExtractionUnavailable]]
                  /\ UNCHANGED <<storeVars, addEvents>>
             ELSE \E x \in Respond(o.intent, req[r].text, req[r].englishText,
                                   req[r].wasTranslated, shoppingList, nextId,
                                   purchaseHistory, month) :
                     /\ x.nextId <= MaxId + 1
                     /\ \A n \in DOMAIN x.hist : x.hist[n] <= MaxCount
                     /\ \A i \in 1..Len(x.list) : x.list[i].quantity <= MaxQuantity
                     /\ req' = [req EXCEPT ![r] = [@ EXCEPT !.pc = "done",
                                                            !.eReply = eReply,
                                                            !.extraction = "ok",
                                                            !.intent = o.intent,
                                                            !.resp = x.resp]]
                     /\ shoppingList' = x.list
                     /\ nextId' = x.nextId
                     /\ purchaseHistory' = x.hist
                     /\ addEvents' = IF o.intent.intent = "ADD_ITEM" /\ Truthy(o.intent.item)
                                     THEN [addEvents EXCEPT ![o.intent.item.s] = @ + 1]
                                     ELSE addEvents
    /\ UNCHANGED <<lastCall, searchVars, unitVars, hfApiKey>>

ExtractReturn(r) == ExtractReturnFrom(r, EReplies)

\* The handler of a request has returned after res.json: the slot is free
\* for the next request.
Finish(r) ==
    /\ req[r].pc = "done"
    /\ req' = [req EXCEPT ![r] = IdleReq]
    /\ UNCHANGED <<storeVars, addEvents, lastCall, searchVars, unitVars, hfApiKey>>

\* DELETE /api/list
DeleteList ==
    /\ shoppingList # <<>>
    /\ shoppingList' = <<>>
    /\ nextId' = 1
    /\ UNCHANGED <<purchaseHistory, addEvents, lastCall, searchVars, unitVars, processVars>>

NextProcess ==
    \/ \E r \in ReqIds : Submit(r)
    \/ \E r \in ReqIds : TranslateReturn(r)
    \/ \E r \in ReqIds : ExtractReturn(r)
    \/ \E r \in ReqIds : Finish(r)
    \/ DeleteList

SpecProcess == InitProcess /\ [][NextProcess]_vars

\* Each backend call is an axios request with a 30 s timeout, so each one
\* returns or times out: the step that ends it is eventually taken.
NextAnswer ==
    \/ \E r \in ReqIds : Submit(r)
    \/ \E r \in ReqIds : TranslateReturn(r)
    \/ \E r \in ReqIds : ExtractReturn(r)

SpecProcessFair ==
    /\ InitProcess
    /\ [][NextAnswer]_vars
    /\ \A r \in ReqIds : WF_vars(TranslateReturn(r)) /\ WF_vars(ExtractReturn(r))

\* ---- POST /api/process with the replies that exercise the extractor

ExtractSubmit(r) == SubmitFrom(r, ExtractTexts, {Undef})
ExtractReturnOdd(r) == ExtractReturnFrom(r, ExtractReplies)

NextExtract ==
    \/ \E r \in ReqIds : ExtractSubmit(r)
    \/ \E r \in ReqIds : ExtractReturnOdd(r)
    \/ \E r \in ReqIds : Finish(r)

SpecExtract == InitProcess /\ [][NextExtract]_vars

\* ---- POST /api/process with generic category cues

GenericSubmit(r) == SubmitFrom(r, GenericTexts, {Undef})
GenericExtractReturn(r) == ExtractReturnFrom(r, GenericReplies)

NextGeneric ==
    \/ \E r \in ReqIds : GenericSubmit(r)
    \/ \E r \in ReqIds : GenericExtractReturn(r)
    \/ \E r \in ReqIds : Finish(r)

SpecGeneric == InitProcess /\ [][NextGeneric]_vars

\* ---- the frontend sending commands and handling the responses

\* data.suggestions as the frontend reads it from the JSON of a response:
\* JSON.stringify leaves out a key whose value is a function.
DataSuggestions(resp) ==
    IF resp.suggestions.shape = "list" /\ resp.suggestions.list = ObjectFunction
    THEN NoSuggestions
    ELSE resp.suggestions

\* processText after the response arrived: a response that is not ok
\* throws; otherwise if (data.suggestions) appState.suggestions =
\* data.suggestions (an object or an array is truthy, also when empty).
AppStateAfter(state, resp) ==
    IF resp.status # 200 THEN state
    ELSE IF DataSuggestions(resp).shape = "none" THEN state
    ELSE [state EXCEPT !.suggestions = DataSuggestions(resp)]

FrontendSubmit(r) == SubmitFrom(r, FrontendTexts, {Undef})
FrontendExtractReturn(r) == ExtractReturnFrom(r, FrontendReplies)

\* The response of request r reaches processText.
ProcessTextReturn(r) ==
    /\ req[r].pc = "done"
    /\ appState' = AppStateAfter(appState, req[r].resp)
    /\ req' = [req EXCEPT ![r] = IdleReq]
    /\ UNCHANGED <<storeVars, addEvents, lastCall, searchVars, pCall, aCall, snapshot,
                   hfApiKey>>

NextFrontend ==
    \/ \E r \in ReqIds : FrontendSubmit(r)
    \/ \E r \in ReqIds : FrontendExtractReturn(r)
    \/ \E r \in ReqIds : ProcessTextReturn(r)

SpecFrontend == InitProcess /\ [][NextFrontend]_vars

\* ---- several POST /api/process requests in flight at the same time

InitConcurrent ==
    /\ shoppingList = <<>>
    /\ nextId = 1
    /\ purchaseHistory = [n \in Names |-> 0]
    /\ addEvents = [n \in Names |-> 0]
    /\ lastCall = NoCall
    /\ sQuery = "" /\ sFilters = NoFilters /\ sResults = <<>> /\ sCalls = 0
    /\ sFirst = NoSearch
    /\ hfApiKey = TRUE
    /\ req = [r \in ConcurrentReqIds |-> IdleReq]
    /\ pCall = NoPriceCall
    /\ aCall = NoAdviceCall
    /\ snapshot = NoSnapshot
    /\ appState = InitialAppState

\* Each handler runs to its next await without interruption (one thread, one
\* event loop); between two awaits of one request any step of another
\* request can run.
ConcurrentSubmit(r) == SubmitFrom(r, ConcurrentTexts, ConcurrentLangs)
ConcurrentExtractReturn(r) == ExtractReturnFrom(r, ConcurrentEReplies)

NextConcurrent ==
    \/ \E r \in ConcurrentReqIds : ConcurrentSubmit(r)
    \/ \E r \in ConcurrentReqIds : TranslateReturn(r)
    \/ \E r \in ConcurrentReqIds : ConcurrentExtractReturn(r)

SpecConcurrent == InitConcurrent /\ [][NextConcurrent]_vars

\* ---- extractPriceConstraint called directly

InitPrice ==
    /\ shoppingList = <<>>
    /\ nextId = 1
    /\ purchaseHistory = [n \in Names |-> 0]
    /\ addEvents = [n \in Names |-> 0]
    /\ lastCall = NoCall
    /\ sQuery = "" /\ sFilters = NoFilters /\ sResults = <<>> /\ sCalls = 0
    /\ sFirst = NoSearch
    /\ hfApiKey = FALSE
    /\ req = [r \in ReqIds |-> IdleReq]
    /\ pCall \in {[NoPriceCall EXCEPT !.text = t] : t \in PriceTexts}
    /\ aCall = NoAdviceCall
    /\ snapshot = NoSnapshot
    /\ appState = InitialAppState

\* extractPriceConstraint(pCall.text)
CallExtractPriceConstraint ==
    /\ ~pCall.done
    /\ pCall' = [pCall EXCEPT !.done = TRUE, !.result = extractPriceConstraint(pCall.text)]
    /\ UNCHANGED <<storeVars, addEvents, lastCall, searchVars, processVars, aCall, snapshot, appState>>

NextPrice == CallExtractPriceConstraint

SpecPrice == InitPrice /\ [][NextPrice]_vars

\* ---- handleAdviceQuestion called directly

InitAdvice ==
    /\ \E status \in AdviceStatus :
          \E st \in {AdviceStore(status, Len(AdviceNames))} :
             /\ shoppingList = st.list
             /\ nextId = st.nextId
             /\ purchaseHistory = st.hist
             /\ addEvents = st.hist
    /\ lastCall = NoCall
    /\ sQuery = "" /\ sFilters = NoFilters /\ sResults = <<>> /\ sCalls = 0
    /\ sFirst = NoSearch
    /\ hfApiKey = FALSE
    /\ req = [r \in ReqIds |-> IdleReq]
    /\ pCall = NoPriceCall
    /\ aCall \in {[NoAdviceCall EXCEPT !.text = t, !.month = mo] :
                     t \in AdviceTexts, mo \in Months}
    /\ snapshot = NoSnapshot
    /\ appState = InitialAppState

\* handleAdviceQuestion(aCall.text) in month aCall.month
CallHandleAdviceQuestion ==
    /\ ~aCall.done
    /\ \E res \in handleAdviceQuestion(aCall.text, shoppingList, purchaseHistory, aCall.month) :
          aCall' = [aCall EXCEPT !.done = TRUE, !.result = res]
    /\ UNCHANGED <<storeVars, addEvents, lastCall, searchVars, processVars, pCall, snapshot, appState>>

NextAdvice == CallHandleAdviceQuestion

SpecAdvice == InitAdvice /\ [][NextAdvice]_vars

\* ============================================================== claims

\* ------------------------------------------------------------ claims: store

\* The entry of a list for a normalized name (NoItem when there is none).
EntryOf(list, n) ==
    IF \E i \in 1..Len(list) : list[i].name = n
    THEN list[CHOOSE i \in 1..Len(list) : list[i].name = n /\ \A j \in 1..(i - 1) : list[j].name # n]
    ELSE NoItem

\* The list holds at most one entry per name, and every name is in normal form.
OneEntryPerName(list) ==
    /\ \A i, j \in 1..Len(list) : list[i].name = list[j].name => i = j
    /\ \A i \in 1..Len(list) : Trim(ToLowerCase(list[i].name)) = list[i].name

\* C2: after any sequence of addItem, removeItem and clearList calls the list
\* holds at most one entry per normalized name, and addItem(name, q) for a name
\* already present raises that entry's quantity by q and adds no entry.
C2_AddOrIncrement ==
    [][ /\ OneEntryPerName(shoppingList')
        /\ lastCall'.op = "addItem" =>
             \A n \in {Trim(ToLowerCase(lastCall'.name))} :
             \A old \in {EntryOf(shoppingList, n)}, new \in {EntryOf(shoppingList', n)} :
                /\ new # NoItem
                /\ old # NoItem =>
                     /\ Len(shoppingList') = Len(shoppingList)
                     /\ new.quantity = old.quantity + lastCall'.quantity
                /\ old = NoItem =>
                     /\ Len(shoppingList') = Len(shoppingList) + 1
                     /\ new.quantity = lastCall'.quantity ]_vars

\* C2 witness: "apples" added twice, in two spellings, 2 then 3: one entry of 5.
C2_Witness ==
    /\ Len(shoppingList) = 1
    /\ shoppingList[1].name = "apples"
    /\ shoppingList[1].quantity = 5
    /\ purchaseHistory["apples"] = 2
    /\ lastCall.op = "addItem" /\ lastCall.name = " Apples " /\ lastCall.quantity = 3

\* ----------------------------------------------------- claims: catalog search

\* The elements of a sequence.
Range(seq) == {seq[i] : i \in 1..Len(seq)}

\* The product satisfies every active constraint of f and matches query q by name.
Satisfies(p, q, f) ==
    /\ Includes(p.name, q) \/ Includes(q, p.name)
    /\ f.maxPrice.set => p.price <= f.maxPrice.v
    /\ f.minPrice.set => p.price >= f.minPrice.v
    /\ f.brand # "" => Includes(ToLowerCase(p.brand), ToLowerCase(f.brand))
    /\ f.size # "" => Includes(ToLowerCase(p.size), ToLowerCase(f.size))
    /\ f.qualifier # "" =>
          \/ \E t \in Range(p.tags) : Includes(t, ToLowerCase(f.qualifier))
          \/ Includes(p.name, ToLowerCase(f.qualifier))

\* C5: every product searchCatalog returns is a catalog product that matches
\* the (lowercased, trimmed) query by name in one direction or the other and
\* satisfies every active constraint, and the returned sequence is
\* non-decreasing in price.
C5_ResultsSatisfyAndSorted ==
    sCalls >= 1 =>
        \A q \in {Trim(ToLowerCase(sQuery))} :
            /\ \A i \in 1..Len(sResults) :
                  /\ sResults[i] \in Range(CATALOG)
                  /\ Satisfies(sResults[i], q, sFilters)
            /\ \A i, j \in 1..Len(sResults) :
                  i < j => sResults[i].price <= sResults[j].price

\* C5 witness: " Apples" with a maximum price of 4.00 and the qualifier
\* "Organic" returns exactly the organic apples product priced 3.99.
C5_Witness ==
    /\ sCalls = 1
    /\ sQuery = " Apples"
    /\ sFilters.maxPrice = Num(400) /\ sFilters.qualifier = "Organic"
    /\ Len(sResults) = 1 /\ sResults[1].id = 1

\* C10: when the second constraint set only adds constraints to the first,
\* the products returned for it are a subset of those returned for the first.
C10_AddingFiltersNeverAddsResults ==
    (sCalls = 2 /\ AddsConstraints(sFirst.filters, sFilters)) =>
        Range(sResults) \subseteq Range(sFirst.results)

\* C10 witness: a second call that added a constraint and lost some, not all,
\* of the first call's products.
C10_Witness ==
    /\ sCalls = 2
    /\ AddsConstraints(sFirst.filters, sFilters)
    /\ sFirst.filters # sFilters
    /\ Len(sResults) > 0
    /\ Len(sResults) < Len(sFirst.results)

\* ------------------------------------------------- claims: POST /api/process

\* The requests that have been answered.
Answered == {r \in ReqIds : req[r].pc = "done"}

\* C1: when a request is resolved as a catalog search and its pivot text
\* yields a price constraint, the filters of the search hold that value
\* (LESS_THAN v: maxPrice = v; GREATER_THAN v: minPrice = v; EQUAL v: both),
\* whatever maxPrice the extractor's payload carried, and the catalog
\* results are those of the search under these filters.
C1_PriceConstraintOverrides ==
    \A r \in Answered :
       req[r].resp.shape = "search" =>
          \A pc \in {extractPriceConstraint(req[r].englishText)} :
          \A f \in {req[r].resp.filters} :
             /\ pc.operator = "LESS_THAN" => f.maxPrice = Num(pc.value)
             /\ pc.operator = "GREATER_THAN" => f.minPrice = Num(pc.value)
             /\ pc.operator = "EQUAL" =>
                   f.maxPrice = Num(pc.value) /\ f.minPrice = Num(pc.value)
             /\ req[r].resp.priceFilter = pc
             /\ req[r].resp.catalogResults = searchCatalog(req[r].intent.item.s, f)

\* A search for "toothpaste under $4" whose payload carried maxPrice 9 was
\* made with maxPrice 4 and found products.
C1_Witness ==
    \E r \in Answered :
       /\ req[r].resp.shape = "search"
       /\ req[r].englishText = "Find toothpaste under $4"
       /\ req[r].eReply.raw[2].p.maxPrice = JsNum(900)
       /\ req[r].resp.filters.maxPrice = Num(400)
       /\ req[r].resp.catalogResults # <<>>

\* The payload a reply's text decodes to, when it decodes.
HasPayload(eReply) ==
    /\ eReply.kind = "content"
    /\ JsonMatch(eReply.raw) # <<>>
    /\ JsonParse(JsonMatch(eReply.raw)).ok
PayloadOf(eReply) == JsonParse(JsonMatch(eReply.raw)).parsed

\* The failure cases of the extractor: the backend is unreachable or
\* answers with an error, the reply holds no parseable payload, the intent
\* tag is none of the four, or a non-UNKNOWN intent has a missing,
\* non-string or blank item.
ReplyIsUnusable(eReply) ==
    \/ eReply.kind \in {"timeout", "http_error", "no_content"}
    \/ eReply.kind = "content" /\ ~HasPayload(eReply)
    \/ /\ HasPayload(eReply)
       /\ \/ PayloadOf(eReply).intent \notin {"ADD_ITEM", "REMOVE_ITEM", "SEARCH_ITEM", "UNKNOWN"}
          \/ /\ PayloadOf(eReply).intent # "UNKNOWN"
             /\ \/ PayloadOf(eReply).item.k # "str"
                \/ Trim(PayloadOf(eReply).item.s) = ""

\* A text the validation must accept.
AcceptableText(text) == text.k = "str" /\ Trim(text.s) # ""

C4_RemoveAbsentIsNormal ==
    [][\A r \in ReqIds :
          (/\ req[r].pc = "extracting"
           /\ req'[r].pc = "done"
           /\ req'[r].intent.intent = "REMOVE_ITEM"
           /\ \A i \in 1..Len(shoppingList) : shoppingList[i].name # req'[r].intent.item.s)
          => /\ req'[r].resp.status = 200
             /\ req'[r].resp.shape = "action"
             /\ req'[r].resp.error = ""
             /\ req'[r].resp.affectedItem = NoItem
             /\ req'[r].resp.message = "was not found in your list."
             /\ req'[r].resp.list = shoppingList
             /\ shoppingList' = shoppingList]_vars

\* "Remove onion" was answered while the list held milk and no onion.
C4_Witness ==
    \E r \in Answered :
       /\ req[r].intent.intent = "REMOVE_ITEM"
       /\ req[r].intent.item.s = "onion"
       /\ req[r].resp.affectedItem = NoItem
       /\ req[r].resp.list # <<>>

\* The requests whose translation step is over and whose lang key is a
\* string, null or absent.
Translated ==
    {r \in ReqIds : /\ req[r].pc \in {"extracting", "done"}
                    /\ AcceptableText(req[r].text)
                    /\ req[r].lang.k # "num"}

\* The language tag translateToEnglish was given ("" for null).
TagOf(q) == IF q.lang = Undef THEN "en-US" ELSE q.lang.s

\* C6: translateToEnglish does not throw, and it resolves to the text it
\* was given with wasTranslated = false when the tag's primary subtag is
\* "en", when no model is registered for it, when HF_API_KEY is absent, and
\* when the backend call ends in a timeout, a non-2xx status or a malformed
\* body.
C6_TranslationFallsBack ==
    \A r \in Translated :
       /\ ~req[r].translationThrew
       /\ (\/ TagOf(req[r]) = ""
           \/ ToLowerCase(BeforeDash(TagOf(req[r]), 1)) = "en"
           \/ ToLowerCase(BeforeDash(TagOf(req[r]), 1)) \notin {"hi", "es", "fr", "de", "ar"}
           \/ ~hfApiKey
           \/ req[r].tReply.kind \in {"timeout", "http_error", "malformed"})
          => /\ req[r].englishText = Trim(req[r].text.s)
             /\ ~req[r].wasTranslated

\* A Hindi request whose translation call timed out went on with its own
\* text.
C6_Witness ==
    \E r \in Translated :
       /\ req[r].lang = JsStr("hi-IN")
       /\ req[r].tReply.kind = "timeout"
       /\ req[r].englishText = "Add 2 milk"
       /\ ~req[r].wasTranslated

C8_FallbackWithoutKey ==
    \A r \in Answered :
       (~hfApiKey /\ AcceptableText(req[r].text))
          => req[r].resp.status = 200 /\ req[r].extraction = "ok"

\* C9: a request whose text is missing, no string or blank is answered 400
\* by the step that receives it, with no backend call made for it and the
\* list, the id counter and the history left as they were.
C9_InvalidTextRejectedFirst ==
    [][\A r \in ReqIds :
          (req'[r].pc # "idle" /\ ~AcceptableText(req'[r].text))
          => /\ req'[r].pc = "done"
             /\ req'[r].resp.status = 400
             /\ req'[r].calls = <<>>
             /\ req'[r].extraction = "none"
             /\ req[r].pc = "idle" =>
                   /\ shoppingList' = shoppingList
                   /\ nextId' = nextId
                   /\ purchaseHistory' = purchaseHistory]_vars

\* A text of white space was answered 400 with the credential set and an
\* item in the list.
C9_Witness ==
    \E r \in Answered :
       /\ req[r].text = JsStr("   ")
       /\ req[r].resp.status = 400
       /\ hfApiKey
       /\ shoppingList # <<>>

\* ------------------------------------------- claims: catalog search, order

\* The position of a product in the declaration of CATALOG.
CatalogIndex(p) == CHOOSE i \in 1..Len(CATALOG) : CATALOG[i] = p

\* C11: two products of equal price in the sequence searchCatalog returned
\* stand in their catalog declaration order.
C11_TiesKeepCatalogOrder ==
    \A i, j \in 1..Len(sResults) :
       (i < j /\ sResults[i].price = sResults[j].price)
          => CatalogIndex(sResults[i]) < CatalogIndex(sResults[j])

\* A search returned at least three products of one price.
C11_Witness ==
    /\ sCalls > 0
    /\ \E i \in 1..Len(sResults) :
          /\ i + 2 <= Len(sResults)
          /\ sResults[i].price = sResults[i + 1].price
          /\ sResults[i].price = sResults[i + 2].price

\* ------------------------------------------- claims: extractPriceConstraint

\* The amounts that follow a cue of a family somewhere in a lowercased text.
AmountsAfterCue(t, cues) ==
    {AmountAfter(t, i + Len(c)).value :
        <<i, c>> \in {x \in (1..Len(t)) \X cues :
                        StartsAt(t, x[1], x[2]) /\ AmountAfter(t, x[1] + Len(x[2])).ok}}

\* C12: the result is one constraint or none, by family priority: LESS_THAN
\* when a less-than cue followed by a number is present, else GREATER_THAN
\* when a greater-than cue followed by a number is present, else EQUAL when
\* "exactly" or "for" followed by a number is present, else null; its value
\* is a number that follows a cue of the chosen family.
C12_FamilyPriority ==
    pCall.done =>
       \A t \in {ToLowerCase(pCall.text)} :
       \A lt \in {AmountsAfterCue(t, {"under", "below", "less than", "max", "maximum"})} :
       \A gt \in {AmountsAfterCue(t, {"above", "over", "more than", "min", "minimum",
                                      "greater than"})} :
       \A eq \in {AmountsAfterCue(t, {"exactly", "for"})} :
          IF lt # {} THEN pCall.result.operator = "LESS_THAN" /\ pCall.result.value \in lt
          ELSE IF gt # {}
          THEN pCall.result.operator = "GREATER_THAN" /\ pCall.result.value \in gt
          ELSE IF eq # {}
          THEN pCall.result.operator = "EQUAL" /\ pCall.result.value \in eq
          ELSE pCall.result = NoConstraint

\* A text with a greater-than cue first and a less-than cue after it gave
\* the less-than constraint.
C12_Witness ==
    /\ pCall.done
    /\ pCall.text = "over 2.50 under $4"
    /\ pCall.result = [operator |-> "LESS_THAN", value |-> 400]

\* ------------------------------------------------ claims: purchase history

\* C13: getRunningLowItems returns exactly the normalized names that have
\* had at least two addItem calls since the start and are not in the list.
C13_RunningLowIsTwiceAddedAndAbsent ==
    lastCall.op = "getRunningLowItems" =>
       lastCall.low = {n \in Names : /\ addEvents[n] >= 2
                                     /\ \A i \in 1..Len(shoppingList) :
                                           shoppingList[i].name # n}

\* The substitutes the table holds for an item: those of the entry whose key
\* is the item, otherwise those of the first entry whose key contains the item
\* or is contained in it, otherwise none.
KnownSubstitutes(item) ==
    LET exact == {i \in 1..Len(SUBSTITUTES) : SUBSTITUTES[i].key = item}
        partial == {i \in 1..Len(SUBSTITUTES) :
                       Includes(item, SUBSTITUTES[i].key) \/ Includes(SUBSTITUTES[i].key, item)}
    IN IF exact # {} THEN SUBSTITUTES[CHOOSE i \in exact : TRUE].subs
       ELSE IF partial # {}
       THEN SUBSTITUTES[CHOOSE i \in partial : \A j \in partial : i <= j].subs
       ELSE <<>>

\* The item a substitution request asks about ("" when the text is no
\* substitution request).
RequestedItem(text) == Trim(SubMatchFrom(ToLowerCase(text), 1).text)
IsSubstitutionRequest(text) == SubMatchFrom(ToLowerCase(text), 1).ok

\* C14: a substitution request whose item has known substitutes is answered
\* with type SUBSTITUTE and exactly those substitutes; a SUBSTITUTE answer is
\* never given in any other case, so a request with no known substitutes goes
\* on to the later checks.
C14_SubstituteOnlyWithKnownSubstitutes ==
    aCall.done =>
       \A known \in {KnownSubstitutes(RequestedItem(aCall.text))} :
          /\ (IsSubstitutionRequest(aCall.text) /\ known # <<>>)
                => (aCall.result.type = "SUBSTITUTE" /\ aCall.result.suggestions = known)
          /\ aCall.result.type = "SUBSTITUTE"
                => (/\ IsSubstitutionRequest(aCall.text)
                    /\ known # <<>>
                    /\ aCall.result.suggestions = known)

\* The same statement for every request except one for the item "constructor".
C14_ExceptInheritedKey ==
    RequestedItem(aCall.text) # "constructor" => C14_SubstituteOnlyWithKnownSubstitutes

IsAdviceCue(text) ==
    SomeIncludes(ToLowerCase(text), {"suggest", "recommend", "what should", "any ideas",
                                     "what to buy", "what do i need"})
IsSeasonalCue(text) == SomeIncludes(ToLowerCase(text), {"best", "season", "fruit"})
IsHealthCue(text) == SomeIncludes(ToLowerCase(text), {"healthy", "diet", "nutritious"})

\* The names added at least twice and absent from the current list.
RunningLow ==
    {n \in Names : /\ addEvents[n] >= 2
                   /\ \A i \in 1..Len(shoppingList) : shoppingList[i].name # n}

\* C15: when neither the substitution step nor the history step answered, a
\* text with a seasonal cue, or with the word "season" or "fruit" even as its
\* only cue, is answered with type SEASONAL and the seasonal list of the month.
C15_SeasonalWheneverCued ==
    (/\ aCall.done
     /\ aCall.result.type # "SUBSTITUTE"
     /\ ~(aCall.result.type = "HISTORY" /\ aCall.result.category = "history")
     /\ IsSeasonalCue(aCall.text))
       => /\ aCall.result.type = "SEASONAL"
          /\ aCall.result.suggestions = SEASONAL_BY_MONTH(aCall.month)

\* The same statement for the texts that also pass the advice gate.
C15_WhenGatePassed ==
    (IsAdviceCue(aCall.text) \/ SomeIncludes(ToLowerCase(aCall.text), {"best", "season"})
        \/ IsHealthCue(aCall.text))
       => C15_SeasonalWheneverCued

\* C16: a text with a general-advice cue and no seasonal or health cue, not
\* answered by the substitution step, is answered, when some item is running
\* low, with type HISTORY and at most three suggestions, all distinct, all of
\* them running-low items.
C16_HistoryFromRunningLow ==
    (/\ aCall.done
     /\ IsAdviceCue(aCall.text)
     /\ ~SomeIncludes(ToLowerCase(aCall.text), {"best", "season"})
     /\ ~IsHealthCue(aCall.text)
     /\ aCall.result.type # "SUBSTITUTE"
     /\ RunningLow # {})
       => /\ aCall.result.type = "HISTORY"
          /\ Len(aCall.result.suggestions) <= 3
          /\ Len(aCall.result.suggestions) >= 1
          /\ \A i, j \in 1..Len(aCall.result.suggestions) :
                i # j => aCall.result.suggestions[i] # aCall.result.suggestions[j]
          /\ \A i \in 1..Len(aCall.result.suggestions) :
                aCall.result.suggestions[i] \in RunningLow

\* More than three items are running low and three of them are suggested.
C16_Witness ==
    /\ aCall.done
    /\ IsAdviceCue(aCall.text)
    /\ Cardinality(RunningLow) > 3
    /\ aCall.result.type = "HISTORY"
    /\ aCall.result.category = "history"
    /\ Len(aCall.result.suggestions) = 3

\* The quantity an ADD request asks for: intent.quantity || 1.
RequestedQuantity(r) ==
    IF req[r].intent.quantity.k = "num" /\ req[r].intent.quantity.n # 0
    THEN req[r].intent.quantity.n ELSE 1

\* The request was answered after adding the named item.
AddedItem(r, name) ==
    /\ req[r].pc = "done"
    /\ req[r].extraction = "ok"
    /\ req[r].intent.intent = "ADD_ITEM"
    /\ req[r].intent.item.k = "str"
    /\ NormalizeName(req[r].intent.item.s) = name

RECURSIVE SumOfQuantities(_)
SumOfQuantities(rs) ==
    IF rs = {} THEN 0
    ELSE LET r == CHOOSE x \in rs : TRUE
         IN RequestedQuantity(r) + SumOfQuantities(rs \ {r})

\* C17: when all the requests in flight at the same time have been answered
\* and each of them added the same item, the list holds one entry for the
\* item, its quantity is the sum of the requested quantities, and the item's
\* count in the history rose by the number of requests.
C17_ConcurrentAddsAreNotLost ==
    (\A r \in DOMAIN req : AddedItem(r, "milk"))
       => /\ Cardinality({i \in 1..Len(shoppingList) : shoppingList[i].name = "milk"}) = 1
          /\ \A i \in 1..Len(shoppingList) :
                shoppingList[i].name = "milk"
                   => shoppingList[i].quantity = SumOfQuantities(DOMAIN req)
          /\ purchaseHistory["milk"] = Cardinality(DOMAIN req)
          /\ addEvents["milk"] = Cardinality(DOMAIN req)

\* Two requests were in flight together, one going through the translation
\* backend and one not, and both added milk, 2 + 1.
C17_Witness ==
    /\ Cardinality(DOMAIN req) = 2
    /\ \A r \in DOMAIN req : AddedItem(r, "milk")
    /\ req["r1"].calls = <<"translation", "extractor">>
    /\ req["r2"].calls = <<"extractor">>
    /\ RequestedQuantity("r1") = 2
    /\ RequestedQuantity("r2") = 1
    /\ Len(shoppingList) = 1
    /\ shoppingList[1].quantity = 3

\* The request was accepted and waits for one of the two backends.
InFlight(r) == req[r].pc \in {"translating", "extracting"}

ResponseShapes == {"action", "search", "generic", "advice", "unknown", "llm_error"}

SpokenQualifiers == {"organic"}

\* C19: the intent record of a catalog search response carries the
\* constraints spoken in the command: maxPrice = v when the command says
\* "under $v", and the qualifier w when the command says w, and w is also the
\* qualifier the catalog search was made with.
C19_SearchIntentCarriesConstraints ==
    \A r \in Answered :
       req[r].resp.shape = "search" =>
          \A pc \in {extractPriceConstraint(req[r].englishText)} :
             /\ pc.operator = "LESS_THAN" => req[r].resp.intent.maxPrice = Num(pc.value)
             /\ \A w \in SpokenQualifiers :
                   Includes(ToLowerCase(req[r].englishText), w)
                      => /\ req[r].resp.intent.qualifier = w
                         /\ req[r].resp.filters.qualifier = w
                         /\ \A i \in 1..Len(req[r].resp.catalogResults) :
                               TagMatch(req[r].resp.catalogResults[i], w)

\* The category of the first entry of the keyword table, in table order,
\* whose keyword the name contains; "General" when there is none.
FirstKeywordCategory(name) ==
    LET hits == {i \in 1..Len(CATEGORY_MAP) : Includes(name, CATEGORY_MAP[i][1])}
    IN IF hits = {} THEN "General"
       ELSE CATEGORY_MAP[CHOOSE i \in hits : \A j \in hits : i <= j][2]

\* C20: an entry created by addItem without a category has the category of
\* the first keyword of the table its normalized name contains, "General"
\* when it contains none (tomatoes and spinach: Vegetables; almond milk:
\* Dairy); an entry created with a category has that category.
C20_CategoryFromKeywordTable ==
    (lastCall.op = "addItem" /\ lastCall.created) =>
       \A e \in {lastCall.item} :
          /\ e.name = NormalizeName(lastCall.name)
          /\ \E i \in 1..Len(shoppingList) : shoppingList[i] = e
          /\ lastCall.category # NoCategory => e.category = lastCall.category
          /\ lastCall.category = NoCategory =>
                /\ e.category = FirstKeywordCategory(e.name)
                /\ e.name \in {"tomatoes", "spinach"} => e.category = "Vegetables"
                /\ e.name = "almond milk" => e.category = "Dairy"
                /\ e.name = "batteries" => e.category = "General"

\* "Rice Cake" was added without a category: its name holds the keywords
\* rice (Grains & Staples) and cake (Bakery), and cake comes first in the table.
C20_Witness ==
    /\ lastCall.op = "addItem"
    /\ lastCall.created
    /\ lastCall.category = NoCategory
    /\ lastCall.item.name = "rice cake"
    /\ lastCall.item.category = "Bakery"
    /\ \E i \in 1..Len(shoppingList) :
          shoppingList[i].name = "almond milk" /\ shoppingList[i].category = "Dairy"

\* What a kept copy of the list shows now.
SnapshotItems == [i \in 1..Len(snapshot.elements) |-> snapshot.elements[i].item]

\* C21: a copy returned by getList shows, after any later addItem, removeItem
\* and clearList calls, the entries, the order and the quantities it had when
\* it was returned.
C21_SnapshotIsNotLive ==
    snapshot.taken => SnapshotItems = snapshot.atCall

\* The weaker statement that holds: the copy keeps its entries and their
\* order (ids, names and categories); only quantities can move.
C21_EntriesAndOrderKept ==
    snapshot.taken =>
       /\ Len(SnapshotItems) = Len(snapshot.atCall)
       /\ \A i \in 1..Len(SnapshotItems) :
             /\ SnapshotItems[i].id = snapshot.atCall[i].id
             /\ SnapshotItems[i].name = snapshot.atCall[i].name
             /\ SnapshotItems[i].category = snapshot.atCall[i].category

\* The requests the extractor returned an Intent for.
Extracted == {r \in DOMAIN req : req[r].pc = "done" /\ req[r].extraction = "ok"}

\* The quantity the list holds of a name (0 when it has no entry).
QuantityOf(list, name) ==
    IF \E i \in 1..Len(list) : list[i].name = name
    THEN list[CHOOSE i \in 1..Len(list) : list[i].name = name].quantity
    ELSE 0

\* C22: the quantity of every Intent the extractor returns is absent or a
\* positive integer, and an ADD whose quantity is absent adds exactly 1.
C22_QuantityPositiveOrAbsent ==
    /\ [](\A r \in Extracted :
             \/ req[r].intent.quantity = JsNull
             \/ req[r].intent.quantity.k = "num" /\ req[r].intent.quantity.n >= 1)
    /\ [][\A r \in DOMAIN req :
             (/\ req[r].pc = "extracting"
              /\ r \in Extracted'
              /\ req'[r].intent.intent = "ADD_ITEM"
              /\ req'[r].intent.quantity = JsNull)
                => QuantityOf(shoppingList', req'[r].intent.item.s)
                      = QuantityOf(shoppingList, req'[r].intent.item.s) + 1]_vars

\* The part that holds: an ADD whose quantity is absent (or 0) adds exactly 1.
C22_AbsentQuantityAddsOne ==
    [][\A r \in DOMAIN req :
          (/\ req[r].pc = "extracting"
           /\ r \in Extracted'
           /\ req'[r].intent.intent = "ADD_ITEM"
           /\ req'[r].intent.quantity = JsNull)
             => QuantityOf(shoppingList', req'[r].intent.item.s)
                   = QuantityOf(shoppingList, req'[r].intent.item.s) + 1]_vars

\* C23: an Intent of kind ADD_ITEM, REMOVE_ITEM or SEARCH_ITEM has an item
\* that is a non-empty, lowercase, trimmed string, and an Intent of kind
\* UNKNOWN has no item, whatever the payload carried.
C23_ItemFollowsKind ==
    \A r \in Extracted :
       /\ req[r].intent.intent \in {"ADD_ITEM", "REMOVE_ITEM", "SEARCH_ITEM"}
             => /\ req[r].intent.item.k = "str"
                /\ req[r].intent.item.s # ""
                /\ req[r].intent.item.s = Trim(ToLowerCase(req[r].intent.item.s))
       /\ req[r].intent.intent = "UNKNOWN" => req[r].intent.item = JsNull

\* The part that holds: the item of an ADD_ITEM, REMOVE_ITEM or SEARCH_ITEM
\* Intent.
C23_ItemOfActionKinds ==
    \A r \in Extracted :
       req[r].intent.intent \in {"ADD_ITEM", "REMOVE_ITEM", "SEARCH_ITEM"}
          => /\ req[r].intent.item.k = "str"
             /\ req[r].intent.item.s # ""
             /\ req[r].intent.item.s = Trim(ToLowerCase(req[r].intent.item.s))

\* The first balanced {...} span of a reply's text: from the first "{" to the
\* "}" that closes it; <<>> when there is none.
FirstBalancedSpan(raw) ==
    LET opens == {i \in 1..Len(raw) : raw[i].t = "{"}
        first == CHOOSE i \in opens : \A j \in opens : i <= j
        Depth(j) == Cardinality({i \in first..j : raw[i].t = "{"})
                       - Cardinality({i \in first..j : raw[i].t = "}"})
        ends == {j \in 1..Len(raw) : j > first /\ Depth(j) = 0}
    IN IF opens = {} \/ ends = {} THEN <<>>
       ELSE SubSeq(raw, first, CHOOSE j \in ends : \A k \in ends : j <= k)

\* The answered requests whose extractor reply was a text.
Replied == {r \in DOMAIN req : req[r].pc = "done" /\ req[r].eReply.kind = "content"}

\* C27: when the first balanced {...} span of the reply decodes to a payload
\* that passes validation, the request gets the Intent of that payload,
\* whatever prose, braces or further objects surround it.
C27_FirstBalancedSpanIsDecoded ==
    \A r \in Replied :
       \A span \in {FirstBalancedSpan(req[r].eReply.raw)} :
          (span # <<>> /\ JsonParse(span).ok /\ Validate(JsonParse(span).parsed).ok)
             => /\ req[r].extraction = "ok"
                /\ req[r].intent = Validate(JsonParse(span).parsed).intent

\* The part that holds: the same, for replies with no "}" after the first
\* balanced span.
C27_WhenNoLaterBrace ==
    \A r \in Replied :
       \A span \in {FirstBalancedSpan(req[r].eReply.raw)} :
          (/\ span # <<>> /\ JsonParse(span).ok /\ Validate(JsonParse(span).parsed).ok
           /\ JsonMatch(req[r].eReply.raw) = span)
             => /\ req[r].extraction = "ok"
                /\ req[r].intent = Validate(JsonParse(span).parsed).intent

\* The generic category the cues of a lowercased text choose ("" for none).
GenericCategoryOf(q) ==
    IF SomeIncludes(q, {"basic", "staple"}) THEN "staples"
    ELSE IF SomeIncludes(q, {"household", "cleaning"}) THEN "household"
    ELSE IF SomeIncludes(q, {"daily need", "essential", "grocery", "food"}) THEN "essentials"
    ELSE ""

\* The fixed item list of a generic category.
GenericList(category) ==
    IF category = "staples" THEN <<"rice", "flour", "sugar", "salt", "cooking oil">>
    ELSE IF category = "household" THEN <<"detergent", "soap", "toothpaste", "toilet paper">>
    ELSE <<"rice", "milk", "eggs", "bread", "cooking oil">>

\* The response is the generic list of the category and carries nothing of a
\* catalog search.
IsGenericResponse(resp, category) ==
    /\ resp.shape = "generic"
    /\ resp.searchType = "GENERIC"
    /\ resp.category = category
    /\ resp.results = GenericList(category)
    /\ resp.catalogResults = <<>>
    /\ resp.listResults = <<>>
    /\ resp.filters = NoFilters
    /\ resp.priceFilter = NoConstraint

\* C24: a SEARCH whose item holds a generic category cue is answered with the
\* fixed list of the category, chosen in the order staples, household,
\* essentials, and with no catalog search; an UNKNOWN for which no advice
\* result was produced gets the same check on the pivot text.
C24_GenericCategoryFirst ==
    \A r \in Extracted :
       /\ (req[r].intent.intent = "SEARCH_ITEM"
              /\ GenericCategoryOf(req[r].intent.item.s) # "")
             => IsGenericResponse(req[r].resp, GenericCategoryOf(req[r].intent.item.s))
       /\ (req[r].intent.intent = "UNKNOWN" /\ req[r].resp.shape # "advice"
              /\ GenericCategoryOf(ToLowerCase(req[r].englishText)) # "")
             => IsGenericResponse(req[r].resp,
                                  GenericCategoryOf(ToLowerCase(req[r].englishText)))

\* A SEARCH for "basic household food" holds cues of all three categories and
\* was answered with the staples.
C24_Witness ==
    \E r \in Extracted :
       /\ req[r].intent.intent = "SEARCH_ITEM"
       /\ req[r].intent.item.s = "basic household food"
       /\ req[r].resp.category = "staples"
       /\ req[r].resp.searchType = "GENERIC"

\* parseIntent has been called for the request.
ExtractorCalled(r) == req[r].pc \in {"extracting", "done"} /\ req[r].resp # ValidationError

\* C25: within a request the extractor is called only when the translation
\* step is over (its backend answered, timed out, or was not called), and
\* with the pivot text of that step: the translated text when wasTranslated,
\* the text of the request otherwise.
C25_ExtractionAfterTranslation ==
    \A r \in DOMAIN req :
       /\ req[r].calls \in {<<>>, <<"translation">>, <<"extractor">>,
                            <<"translation", "extractor">>}
       /\ req[r].pc = "translating"
             => (req[r].extractorText = "" /\ req[r].tReply = NoTReply)
       /\ ExtractorCalled(r)
             => /\ req[r].calls # <<>> /\ req[r].calls[1] = "translation"
                      => req[r].tReply # NoTReply
                /\ req[r].wasTranslated
                      => (/\ req[r].tReply.kind = "ok"
                          /\ req[r].extractorText = Trim(req[r].tReply.text))
                /\ ~req[r].wasTranslated
                      => req[r].extractorText \in {req[r].text.s, Trim(req[r].text.s)}

\* The translation backend answered and the extractor was then called with
\* the translated text, which differs from the text of the request.
C25_Witness ==
    \E r \in DOMAIN req :
       /\ req[r].pc = "extracting"
       /\ req[r].calls = <<"translation", "extractor">>
       /\ req[r].wasTranslated
       /\ req[r].text.s = "do doodh jodo"
       /\ req[r].extractorText = "add two milk"

\* The advice gate let the text through and no earlier step answered.
OnlyFallbackLeft ==
    /\ aCall.done
    /\ (IsAdviceCue(aCall.text) \/ SomeIncludes(ToLowerCase(aCall.text), {"best", "season"})
          \/ IsHealthCue(aCall.text))
    /\ aCall.result.type \notin {"SUBSTITUTE", "SEASONAL", "HEALTHY"}
    /\ ~(aCall.result.type = "HISTORY" /\ aCall.result.category = "history")

\* C26: when the advice gate is satisfied and no substitution, history,
\* seasonal or health result was produced, the result is the generic
\* fallback: tagged GENERIC, with the top three frequently-needed items.
C26_GenericFallbackTag ==
    OnlyFallbackLeft
       => /\ aCall.result.type = "GENERIC"
          /\ aCall.result.suggestions = <<"milk", "bread", "eggs">>

\* The part that holds: the fallback suggests the top three frequently-needed
\* items.
C26_FallbackSuggestions ==
    OnlyFallbackLeft
       => /\ aCall.result # NoAdvice
          /\ aCall.result.suggestions = <<"milk", "bread", "eggs">>

\* The step answers request r.
Answers(r) == req[r].pc # "done" /\ req'[r].pc = "done"

\* C28: a request answered with a catalog search, a generic category list,
\* an advice result, the unknown reply or an error leaves the list and the
\* history as they were; a request that changes the history is an ADD, and
\* one that changes the list is an ADD or a REMOVE.
C28_OnlyAddAndRemoveWrite ==
    [][\A r \in DOMAIN req :
          Answers(r) =>
             /\ req'[r].resp.shape # "action"
                   => /\ shoppingList' = shoppingList
                      /\ purchaseHistory' = purchaseHistory
                      /\ nextId' = nextId
             /\ purchaseHistory' # purchaseHistory
                   => req'[r].intent.intent = "ADD_ITEM"
             /\ shoppingList' # shoppingList
                   => req'[r].intent.intent \in {"ADD_ITEM", "REMOVE_ITEM"}]_vars

\* A REMOVE took milk off the list and its count in the history stayed.
C28_Witness ==
    \E r \in Answered :
       /\ req[r].intent.intent = "REMOVE_ITEM"
       /\ req[r].resp.affectedItem.name = "milk"
       /\ shoppingList = <<>>
       /\ purchaseHistory["milk"] = 2

\* C29: after any sequence of handled responses appState.suggestions is a
\* record with the lists seasonal, substitutes and frequent.
C29_SuggestionsKeepRecordShape ==
    appState.suggestions.shape = "object"

\* The part that holds: a response without suggestions, or one that is not
\* ok, leaves appState.suggestions as it was, and an action response leaves
\* it a record of the three lists.
C29_OtherResponsesKeepShape ==
    [][\A r \in DOMAIN req :
          (req[r].pc = "done" /\ req'[r].pc = "idle") =>
             /\ (req[r].resp.status # 200 \/ req[r].resp.suggestions.shape = "none")
                   => appState' = appState
             /\ req[r].resp.shape = "action" => appState'.suggestions.shape = "object"]_vars

\* C30: the ids of the entries of the list are pairwise distinct in every
\* state addItem, removeItem and clearList reach, also after clearList has
\* set the id counter back to 1, and addItem for a name already in the list
\* leaves the id, the category and addedAt of its entry as they were.
C30_IdsDistinctAndKept ==
    [][ /\ \A i, j \in 1..Len(shoppingList') :
              shoppingList'[i].id = shoppingList'[j].id => i = j
        /\ \A i \in 1..Len(shoppingList') : shoppingList'[i].id < nextId'
        /\ lastCall'.op = "clearList" => (nextId' = 1 /\ shoppingList' = <<>>)
        /\ (lastCall'.op = "addItem" /\ ~lastCall'.created) =>
              \A n \in {NormalizeName(lastCall'.name)} :
              \A old \in {EntryOf(shoppingList, n)}, new \in {EntryOf(shoppingList', n)} :
                 /\ old # NoItem
                 /\ new.id = old.id
                 /\ new.category = old.category
                 /\ new.addedAt = old.addedAt ]_vars

\* After a clearList, "milk" was added (id 1 again) and then added once more
\* with a category while "apples" was added in between: milk keeps id 1, its
\* category and its addedAt.
C30_Witness ==
    /\ lastCall.op = "addItem" /\ ~lastCall.created
    /\ lastCall.category = "Snacks"
    /\ Len(shoppingList) = 2
    /\ shoppingList[1].name = "milk" /\ shoppingList[1].id = 1
    /\ shoppingList[1].category = "Dairy"
    /\ shoppingList[1].addedAt < shoppingList[2].addedAt
    /\ shoppingList[1].addedAt > 1
    /\ shoppingList[1].quantity > 1

====
